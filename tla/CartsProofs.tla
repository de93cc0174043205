---------------------------- MODULE CartsProofs ----------------------------
(* Theorems about Carts, for any calls, items, menu and products, however  *)
(* the calls overlap.                                                      *)
EXTENDS Carts, FiniteSetTheorems, SequenceTheorems, TLAPS

(* Lines a cart may have: finitely many, one for each item, all of them    *)
(* allowed.                                                                *)
GoodLines(lines, allowed) ==
  /\ lines \subseteq Lines /\ IsFiniteSet(lines)
  /\ OneLineEach(lines)
  /\ lines \subseteq allowed

GoodCart(cart, allowed) ==
  /\ cart \in Cart /\ GoodLines(cart.products, allowed)
  /\ cart.cartCountProducts = Cardinality(cart.products)

(* The lines buyer and calls have asked for so far.                        *)
Allowed == FirstLines \cup UNION {Asked(c) : c \in Calls}

(* A cart is created only by an addition, and jobs belong to what their    *)
(* call was asked.                                                         *)
JobsFit ==
  \A c \in Calls, i \in Items :
    /\ at[<<c, i>>] # "idle" => i \in request[c].items
    /\ at[<<c, i>>] = "new" => request[c].quantity > 0

GoodCarts ==
  /\ TypeOK
  /\ JobsFit
  /\ \A n \in DOMAIN carts : GoodCart(carts[n], Allowed)
  /\ \A j \in Jobs : GoodLines(copy[j], Allowed)

-----------------------------------------------------------------------------
(* No lines are good lines.                                                *)
LEMMA NoneGood == \A allowed : GoodLines({}, allowed)
BY FS_EmptySet DEF GoodLines, OneLineEach

(* Leaving out lines keeps lines good.                                     *)
LEMMA SmallerGood ==
  ASSUME NEW allowed, NEW lines, GoodLines(lines, allowed), NEW smaller \in SUBSET lines
  PROVE  GoodLines(smaller, allowed)
<1>1. IsFiniteSet(smaller)
  BY FS_Subset DEF GoodLines
<1>2. QED
  BY <1>1 DEF GoodLines, OneLineEach

(* So does allowing more.                                                  *)
LEMMA MoreAllowed ==
  ASSUME NEW allowed, NEW more, allowed \subseteq more
  PROVE  /\ \A lines : GoodLines(lines, allowed) => GoodLines(lines, more)
         /\ \A cart : GoodCart(cart, allowed) => GoodCart(cart, more)
BY DEF GoodLines, GoodCart

(* updateCartUtil keeps lines good.                                        *)
LEMMA UpdateGood ==
  ASSUME NEW item \in Items, NEW q \in Int, NEW allowed, <<item, q>> \in allowed,
         NEW lines, GoodLines(lines, allowed)
  PROVE  GoodLines(UpdateCartUtil(lines, item, q), allowed)
<1> DEFINE rest == Without(lines, {item})
           new == IF q > 0 THEN {<<item, q>>} ELSE {}
<1>1. GoodLines(rest, allowed)
  BY SmallerGood DEF Without
<1>2. /\ IsFiniteSet(new) /\ new \subseteq Lines /\ new \subseteq allowed
      /\ \A l \in new : l = <<item, q>>
  <2>1. IsFiniteSet({<<item, q>>}) /\ IsFiniteSet({})
    BY FS_Singleton, FS_EmptySet
  <2>2. QED
    BY <2>1 DEF Lines
<1>3. IsFiniteSet(rest \cup new)
  BY <1>1, <1>2, FS_Union DEF GoodLines
<1>4. OneLineEach(rest \cup new)
  <2>1. \A l \in rest : l[1] # item
    BY DEF Without
  <2>2. OneLineEach(rest)
    BY <1>1 DEF GoodLines
  <2> HIDE DEF rest, new
  <2>3. QED
    BY <2>1, <2>2, <1>2 DEF OneLineEach
<1>5. QED
  BY <1>1, <1>2, <1>3, <1>4 DEF GoodLines, UpdateCartUtil

LEMMA CartOfGood ==
  ASSUME NEW allowed, NEW lines, GoodLines(lines, allowed)
  PROVE  GoodCart(CartOf(lines), allowed)
<1>1. Cardinality(lines) \in Nat
  BY FS_CardinalityType DEF GoodLines
<1>2. QED
  BY <1>1 DEF GoodCart, GoodLines, CartOf, Cart

(* The cart the code reads is good.                                        *)
LEMMA FirstGood ==
  ASSUME GoodCarts
  PROVE  GoodLines(FirstCart, Allowed)
<1>1. CASE carts = <<>>
  BY <1>1, NoneGood DEF FirstCart
<1>2. CASE carts # <<>>
  BY <1>2 DEF FirstCart, GoodCart, GoodCarts, TypeOK
<1>3. QED
  BY <1>1, <1>2

(* What a call was asked, for the jobs that belong to it.                  *)
LEMMA JobAsked ==
  ASSUME GoodCarts, NEW c \in Calls, NEW item \in Items, at[<<c, item>>] # "idle"
  PROVE  /\ request[c].quantity \in Int
         /\ <<item, request[c].quantity>> \in Allowed
         /\ <<c, item>> \in Jobs
<1>1. item \in request[c].items
  BY DEF GoodCarts, JobsFit
<1>2. request[c] \in Requests
  BY <1>1 DEF GoodCarts, TypeOK, NoRequest
<1>3. request[c].quantity \in Int
  BY <1>2 DEF Requests
<1>4. QED
  BY <1>1, <1>3 DEF Allowed, Asked, Jobs

THEOREM InitGood == Init => GoodCarts
<1> SUFFICES ASSUME Init PROVE GoodCarts
  OBVIOUS
<1>1. GoodLines(FirstLines, Allowed)
  BY CartsAssumption DEF GoodLines, Allowed
<1>2. GoodCart(CartOf(FirstLines), Allowed)
  BY <1>1, CartOfGood
<1>3. carts \in Seq(Cart) /\ \A n \in DOMAIN carts : GoodCart(carts[n], Allowed)
  <2>1. CASE carts = <<>>
    BY <2>1
  <2>2. CASE carts = <<CartOf(FirstLines)>>
    BY <2>2, <1>2 DEF GoodCart
  <2>3. QED
    BY <2>1, <2>2 DEF Init
<1>4. TypeOK
  BY <1>3 DEF Init, TypeOK, Stations, Jobs
<1>5. JobsFit
  BY DEF Init, JobsFit, Jobs
<1>6. \A j \in Jobs : GoodLines(copy[j], Allowed)
  BY NoneGood DEF Init
<1>7. QED
  BY <1>3, <1>4, <1>5, <1>6 DEF GoodCarts

-----------------------------------------------------------------------------
(* What a step does to the carts and to the copies, for most steps: the    *)
(* requests stay, one job goes on.                                         *)
LEMMA JobGoesOn ==
  ASSUME GoodCarts, NEW c \in Calls, NEW x \in Items \cup {Whole},
         NEW from \in Stations, NEW to \in Stations,
         Goes(<<c, x>>, from, to), from # "idle", to # "idle",
         x \in Items /\ to = "new" => request[c].quantity > 0,
         request' = request, before' = before, alone' = alone, shelf' = shelf,
         carts' \in Seq(Cart), \A n \in DOMAIN carts' : GoodCart(carts'[n], Allowed),
         copy' \in [Jobs -> SUBSET Lines], \A j \in Jobs : GoodLines(copy'[j], Allowed)
  PROVE  GoodCarts'
<1>1. <<c, x>> \in Jobs /\ at' = [at EXCEPT ![<<c, x>>] = to]
  BY DEF Jobs, Goes
<1>2. TypeOK'
  BY <1>1 DEF TypeOK, GoodCarts
<1>3. JobsFit'
  <2>1. ASSUME NEW d \in Calls, NEW i \in Items
        PROVE  /\ at'[<<d, i>>] # "idle" => i \in request[d].items
               /\ at'[<<d, i>>] = "new" => request[d].quantity > 0
    <3>1. CASE <<d, i>> = <<c, x>>
      BY <3>1, <1>1 DEF GoodCarts, JobsFit, TypeOK, Goes
    <3>2. CASE <<d, i>> # <<c, x>>
      BY <3>2, <1>1 DEF GoodCarts, JobsFit, TypeOK, Jobs
    <3>3. QED
      BY <3>1, <3>2
  <2> QED
    BY <2>1 DEF JobsFit
<1>4. Allowed' = Allowed
  BY DEF Allowed, Asked
<1>5. QED
  BY <1>2, <1>3, <1>4 DEF GoodCarts

(* The same for the steps that leave the carts and the copies alone.       *)
LEMMA JobLooksOn ==
  ASSUME GoodCarts, NEW c \in Calls, NEW x \in Items \cup {Whole},
         NEW from \in Stations, NEW to \in Stations,
         Goes(<<c, x>>, from, to), from # "idle", to # "idle",
         x \in Items /\ to = "new" => request[c].quantity > 0,
         UNCHANGED <<carts, shelf, copy, request, before, alone>>
  PROVE  GoodCarts'
<1>1. /\ carts' \in Seq(Cart) /\ \A n \in DOMAIN carts' : GoodCart(carts'[n], Allowed)
      /\ copy' \in [Jobs -> SUBSET Lines] /\ \A j \in Jobs : GoodLines(copy'[j], Allowed)
  BY DEF GoodCarts, TypeOK
<1>2. /\ request' = request /\ before' = before /\ alone' = alone /\ shelf' = shelf
  OBVIOUS
<1>3. QED
  BY <1>1, <1>2, JobGoesOn

(* A job takes a copy of good lines.                                       *)
LEMMA JobCopies ==
  ASSUME GoodCarts, NEW c \in Calls, NEW x \in Items \cup {Whole},
         NEW to \in Stations \ {"idle", "new"}, Goes(<<c, x>>, "read", to),
         NEW lines, GoodLines(lines, Allowed), copy' = [copy EXCEPT ![<<c, x>>] = lines],
         UNCHANGED <<carts, shelf, request, before, alone>>
  PROVE  GoodCarts'
<1>1. copy' \in [Jobs -> SUBSET Lines] /\ \A j \in Jobs : GoodLines(copy'[j], Allowed)
  <2>1. <<c, x>> \in Jobs /\ copy \in [Jobs -> SUBSET Lines] /\ lines \in SUBSET Lines
    BY DEF GoodCarts, TypeOK, Jobs, GoodLines
  <2>2. \A j \in Jobs : copy'[j] = IF j = <<c, x>> THEN lines ELSE copy[j]
    BY <2>1
  <2>3. QED
    BY <2>1, <2>2 DEF GoodCarts
<1>2. carts' \in Seq(Cart) /\ \A n \in DOMAIN carts' : GoodCart(carts'[n], Allowed)
  BY DEF GoodCarts, TypeOK
<1>3. /\ request' = request /\ before' = before /\ alone' = alone /\ shelf' = shelf
      /\ "read" \in Stations
  BY DEF Stations
<1>4. QED
  BY <1>1, <1>2, <1>3, JobGoesOn

(* A job writes good lines.                                                *)
LEMMA JobWrites ==
  ASSUME GoodCarts, NEW c \in Calls, NEW x \in Items \cup {Whole},
         NEW from \in {"new", "write", "again"}, NEW to \in {"again", "done"},
         Goes(<<c, x>>, from, to), NEW lines, GoodLines(lines, Allowed),
         \/ carts' = Append(carts, CartOf(lines))
         \/ carts' = Upserted(CartOf(lines))
         \/ carts # <<>> /\ carts' = [carts EXCEPT ![1] = CartOf(lines)],
         UNCHANGED <<shelf, copy, request, before, alone>>
  PROVE  GoodCarts'
<1> DEFINE new == CartOf(lines)
<1>1. GoodCart(new, Allowed) /\ new \in Cart
  BY CartOfGood DEF GoodCart
<1>2. carts \in Seq(Cart) /\ \A n \in DOMAIN carts : GoodCart(carts[n], Allowed)
  BY DEF GoodCarts, TypeOK
<1>3. carts' \in Seq(Cart) /\ \A n \in DOMAIN carts' : GoodCart(carts'[n], Allowed)
  <2> HIDE DEF new
  <2>1. CASE carts' = Append(carts, new)
    BY <2>1, <1>1, <1>2
  <2>2. CASE carts # <<>> /\ carts' = [carts EXCEPT ![1] = new]
    <3>0. 1 \in 1 .. Len(carts)
      BY <2>2, <1>2
    <3>1. carts' \in Seq(Cart) /\ DOMAIN carts' = DOMAIN carts
      BY <2>2, <3>0, <1>1, <1>2, ExceptSeq
    <3>2. \A n \in DOMAIN carts : carts'[n] = IF n = 1 THEN new ELSE carts[n]
      BY <2>2, <1>2
    <3>3. QED
      BY <3>1, <3>2, <1>1, <1>2
  <2>3. CASE carts' = <<new>>
    BY <2>3, <1>1
  <2>4. QED
    BY <2>1, <2>2, <2>3 DEF Upserted, new
<1>4. copy' \in [Jobs -> SUBSET Lines] /\ \A j \in Jobs : GoodLines(copy'[j], Allowed)
  BY DEF GoodCarts, TypeOK
<1>5. /\ request' = request /\ before' = before /\ alone' = alone /\ shelf' = shelf
      /\ from \in Stations /\ to \in Stations
  BY DEF Stations
<1>6. QED
  BY <1>3, <1>4, <1>5, JobGoesOn

-----------------------------------------------------------------------------
(* A call begins.                                                          *)
LEMMA StartGood ==
  ASSUME GoodCarts, NEW c \in Calls, NEW r \in Menu, Start(c, r)
  PROVE  GoodCarts'
<1>1. r \in Requests /\ r.items \subseteq Items
  BY CartsAssumption DEF Requests
<1>2. /\ request[c] = NoRequest /\ request' = [request EXCEPT ![c] = r]
      /\ request \in [Calls -> Requests \cup {NoRequest}]
  BY DEF Start, GoodCarts, TypeOK
<1>3. /\ request'[c] = r
      /\ \A d \in Calls \ {c} : request'[d] = request[d]
  BY <1>2
<1>4. Allowed \subseteq Allowed'
  BY <1>2, <1>3 DEF Allowed, Asked, NoRequest
<1>5. \A j \in Jobs : at'[j] = IF j \notin JobsOf(c)' THEN at[j]
                               ELSE IF j[2] = Whole THEN "read" ELSE "validate"
  BY DEF Start
<1>6. JobsOf(c)' = {c} \X (IF r.kind \in {"add", "delete"} THEN r.items ELSE {Whole})
  BY <1>3 DEF JobsOf
<1>7. TypeOK'
  <2>1. at' \in [Jobs -> Stations]
    BY <1>5 DEF Start, GoodCarts, TypeOK, Stations
  <2>2. before' \in [Calls -> SUBSET Lines]
    BY FirstGood DEF Start, GoodCarts, TypeOK, GoodLines
  <2>3. alone' \in [Calls -> BOOLEAN]
    BY DEF Start, GoodCarts, TypeOK
  <2>4. QED
    BY <2>1, <2>2, <2>3, <1>1, <1>2 DEF Start, GoodCarts, TypeOK
<1>8. JobsFit'
  <2>1. ASSUME NEW d \in Calls, NEW i \in Items
        PROVE  /\ at'[<<d, i>>] # "idle" => i \in request'[d].items
               /\ at'[<<d, i>>] = "new" => request'[d].quantity > 0
    <3>1. <<d, i>> \in Jobs /\ i # Whole
      BY CartsAssumption DEF Jobs
    <3>2. CASE <<d, i>> \in JobsOf(c)'
      BY <3>1, <3>2, <1>3, <1>5, <1>6
    <3>3. CASE <<d, i>> \notin JobsOf(c)' /\ d # c
      BY <3>1, <3>3, <1>3, <1>5 DEF GoodCarts, JobsFit
    <3>4. CASE <<d, i>> \notin JobsOf(c)' /\ d = c
      BY <3>1, <3>4, <1>2, <1>5 DEF GoodCarts, JobsFit, NoRequest
    <3>5. QED
      BY <3>2, <3>3, <3>4
  <2>2. QED
    BY <2>1 DEF JobsFit
<1>9. QED
  BY <1>4, <1>7, <1>8, MoreAllowed DEF GoodCarts, Start

(* One step of addProductToCart.                                           *)
LEMMA AddStepGood ==
  ASSUME GoodCarts, NEW c \in Calls, NEW i \in Items, AddStep(c, i)
  PROVE  GoodCarts'
<1> DEFINE q == request[c].quantity
<1>1. CASE Validate(c, i)
  BY <1>1, JobLooksOn DEF Validate, History, Stations
<1>2. CASE CountCarts(c, i)
  BY <1>2, JobLooksOn DEF CountCarts, History, Stations
<1>3. CASE CreateCart(c, i)
  <2>1. at[<<c, i>>] = "new"
    BY <1>3 DEF CreateCart, Goes
  <2>2. q \in Int /\ <<i, q>> \in Allowed /\ q > 0
    BY <2>1, JobAsked DEF GoodCarts, JobsFit
  <2>3. UpdateCartUtil({}, i, q) = {<<i, q>>}
    BY <2>2 DEF UpdateCartUtil, Without
  <2>4. GoodLines({<<i, q>>}, Allowed)
    BY <2>2, <2>3, NoneGood, UpdateGood
  <2>5. QED
    BY <1>3, <2>4, JobWrites DEF CreateCart, History
<1>4. CASE ReadCart(c, i)
  <2>1. CASE NothingToReduce(FirstCart, i, q)
    BY <1>4, <2>1, JobLooksOn DEF ReadCart, History, Stations
  <2>2. CASE ~ NothingToReduce(FirstCart, i, q)
    <3>1. at[<<c, i>>] = "read"
      BY <1>4, <2>2 DEF ReadCart, Goes
    <3>2. GoodLines(UpdateCartUtil(FirstCart, i, q), Allowed)
      BY <3>1, JobAsked, FirstGood, UpdateGood
    <3>3. QED
      BY <1>4, <2>2, <3>2, JobCopies DEF ReadCart, History, Stations
  <2>3. QED
    BY <2>1, <2>2
<1>5. CASE UpdateCart(c, i)
  <2>1. GoodLines(copy[<<c, i>>], Allowed)
    BY DEF GoodCarts, Jobs
  <2>2. QED
    BY <1>5, <2>1, JobWrites DEF UpdateCart, History
<1>6. QED
  BY <1>1, <1>2, <1>3, <1>4, <1>5 DEF AddStep

(* One step of a call about the whole cart.                                *)
LEMMA WholeStepGood ==
  ASSUME GoodCarts, NEW c \in Calls, WholeStep(c)
  PROVE  GoodCarts'
<1>1. GoodLines(copy[<<c, Whole>>], Allowed)
  BY DEF GoodCarts, Jobs
<1>2. CASE ReadForClear(c)
  BY <1>2, NoneGood, JobCopies DEF ReadForClear, History, Stations
<1>3. CASE ClearCart(c)
  BY <1>3, <1>1, JobWrites DEF ClearCart, History
<1>4. CASE ReadForOrder(c)
  <2>1. GoodLines(Without(FirstCart, request[c].items), Allowed)
    BY FirstGood, SmallerGood DEF Without
  <2>2. CASE ReadFails(c)
    BY <1>4, <2>2, CartsAssumption, JobLooksOn DEF ReadForOrder, ReadFails, History, Stations
  <2>3. QED
    BY <1>4, <2>1, <2>2, JobCopies DEF ReadForOrder, History, Stations
<1>5. CASE CommitOrder(c)
  BY <1>5, <1>1, JobWrites DEF CommitOrder, History
<1>6. CASE AbortOrder(c)
  BY <1>6, CartsAssumption, JobLooksOn DEF AbortOrder, History, Stations
<1>7. QED
  BY <1>2, <1>3, <1>4, <1>5, <1>6 DEF WholeStep

THEOREM NextGood == GoodCarts /\ [Next]_vars => GoodCarts'
<1> SUFFICES ASSUME GoodCarts, [Next]_vars PROVE GoodCarts'
  OBVIOUS
<1>1. CASE UNCHANGED vars
  BY <1>1 DEF vars, GoodCarts, TypeOK, JobsFit, Allowed, Asked
<1>2. CASE ChangeShelf
  BY <1>2 DEF ChangeShelf, GoodCarts, TypeOK, JobsFit, Allowed, Asked
<1>3. CASE Quiet
  BY <1>1, <1>3 DEF Quiet
<1>4. QED
  BY <1>1, <1>2, <1>3, StartGood, AddStepGood, WholeStepGood DEF Next

-----------------------------------------------------------------------------
(* However calls overlap: the collection keeps its type; no cart has two   *)
(* lines for one item; the stored count is the number of lines; every line *)
(* is one the buyer had or asked for.                                      *)
THEOREM CartsKept == Spec => [](TypeOK /\ OneLinePerItem /\ CountsMatch /\ NothingMadeUp)
<1>1. GoodCarts => TypeOK /\ OneLinePerItem /\ CountsMatch /\ NothingMadeUp
  BY DEF GoodCarts, GoodCart, GoodLines, OneLinePerItem, CountsMatch, NothingMadeUp, Allowed
<1>2. QED
  BY <1>1, InitGood, NextGood, PTL DEF Spec

-----------------------------------------------------------------------------
(* For UntouchedStays: what a job will write agrees with the first cart on *)
(* the items no request has named yet.                                     *)
SameUntouched(lines) ==
  \A i \in Items : Untouched(i) => LineOf(lines, i) = LineOf(FirstCart, i)

CopiesAgree ==
  \A j \in Jobs : at[j] \in {"write", "again"} => carts # <<>> /\ SameUntouched(copy[j])

(* What one step must do to the first cart and to the copies.              *)
KeepsUntouched == \A i \in Items : Untouched(i)' => LineOf(FirstCart, i)' = LineOf(FirstCart, i)

LEMMA NamedStayNamed ==
  ASSUME GoodCarts, [Next]_vars, NEW i \in Items, Untouched(i)'
  PROVE  Untouched(i)
<1>1. CASE request' = request
  BY <1>1 DEF Untouched
<1>2. ASSUME NEW c \in Calls, NEW r \in Menu, Start(c, r)
      PROVE  Untouched(i)
  <2>1. /\ request[c] = NoRequest
        /\ \A d \in Calls \ {c} : request'[d] = request[d]
    BY <1>2 DEF Start, GoodCarts, TypeOK
  <2>2. QED
    BY <2>1 DEF Untouched, NoRequest
<1>3. QED
  BY <1>1, <1>2 DEF Next, vars, AddStep, WholeStep, Validate, CountCarts, CreateCart, ReadCart,
     UpdateCart, ReadForClear, ClearCart, ReadForOrder, CommitOrder, AbortOrder, History,
     ChangeShelf, Quiet

(* A step that keeps the carts, and lets jobs reach their write only with  *)
(* copies that agree.                                                      *)
LEMMA CartsStay ==
  ASSUME GoodCarts, CopiesAgree, [Next]_vars, carts' = carts,
         \A j \in Jobs : at'[j] \in {"write", "again"} =>
           \/ at[j] \in {"write", "again"} /\ copy'[j] = copy[j]
           \/ carts # <<>> /\ SameUntouched(copy'[j])
  PROVE  CopiesAgree' /\ KeepsUntouched
<1>1. FirstCart' = FirstCart
  BY DEF FirstCart
<1>2. KeepsUntouched
  BY <1>1 DEF KeepsUntouched, LineOf
<1>3. \A j \in Jobs : at'[j] \in {"write", "again"} => carts # <<>> /\ SameUntouched(copy'[j])
  BY DEF CopiesAgree
<1>4. ASSUME NEW j \in Jobs, at'[j] \in {"write", "again"}, NEW i \in Items, Untouched(i)'
      PROVE  LineOf(copy'[j], i) = LineOf(FirstCart, i)'
  BY <1>1, <1>3, <1>4, NamedStayNamed DEF SameUntouched, LineOf
<1>5. QED
  BY <1>2, <1>3, <1>4 DEF CopiesAgree, SameUntouched, LineOf

(* A step that writes lines that agree, and goes on with one job.          *)
LEMMA CartsChange ==
  ASSUME GoodCarts, CopiesAgree, [Next]_vars, carts' # <<>>, copy' = copy, SameUntouched(FirstCart'),
         NEW x \in Jobs, at' = [at EXCEPT ![x] = at'[x]],
         at'[x] \in {"write", "again"} => at[x] \in {"write", "again"}
  PROVE  CopiesAgree' /\ KeepsUntouched
<1>1. KeepsUntouched
  BY NamedStayNamed DEF KeepsUntouched, SameUntouched, LineOf
<1>2. \A j \in Jobs : at'[j] \in {"write", "again"} => SameUntouched(copy[j])
  BY DEF CopiesAgree, GoodCarts, TypeOK
<1>3. ASSUME NEW j \in Jobs, at'[j] \in {"write", "again"}, NEW i \in Items, Untouched(i)'
      PROVE  LineOf(copy'[j], i) = LineOf(FirstCart, i)'
  BY <1>1, <1>2, <1>3, NamedStayNamed DEF SameUntouched, KeepsUntouched, LineOf
<1>4. QED
  BY <1>1, <1>3 DEF CopiesAgree, SameUntouched, LineOf

(* The first cart after a write.                                           *)
LEMMA FirstAfterWrite ==
  ASSUME GoodCarts, carts # <<>>, NEW lines, GoodLines(lines, Allowed),
         \/ carts' = Upserted(CartOf(lines))
         \/ carts' = [carts EXCEPT ![1] = CartOf(lines)]
  PROVE  carts' # <<>> /\ FirstCart' = lines
<1>1. CartOf(lines) \in Cart /\ carts \in Seq(Cart) /\ 1 \in 1 .. Len(carts)
  BY CartOfGood DEF GoodCart, GoodCarts, TypeOK
<1>2. carts' = [carts EXCEPT ![1] = CartOf(lines)]
  BY DEF Upserted
<1>3. Len(carts') = Len(carts) /\ carts'[1] = CartOf(lines)
  BY <1>1, <1>2, ExceptSeq
<1>4. QED
  BY <1>1, <1>3 DEF FirstCart, CartOf

LEMMA AddStepAgrees ==
  ASSUME GoodCarts, CopiesAgree, [Next]_vars, NEW c \in Calls, NEW x \in Items, AddStep(c, x)
  PROVE  CopiesAgree' /\ KeepsUntouched
<1> DEFINE j == <<c, x>>  q == request[c].quantity
<1>0. j \in Jobs /\ at \in [Jobs -> Stations] /\ copy \in [Jobs -> SUBSET Lines]
  BY DEF Jobs, GoodCarts, TypeOK
<1>1. CASE Validate(c, x)
  BY <1>0, <1>1, CartsStay DEF Validate, Goes
<1>2. CASE CountCarts(c, x)
  BY <1>0, <1>2, CartsStay DEF CountCarts, Goes
<1>3. CASE CreateCart(c, x)
  <2>1. at[j] = "new" /\ at' = [at EXCEPT ![j] = "done"] /\ copy' = copy
    BY <1>3 DEF CreateCart, Goes
  <2>2. x \in request[c].items
    BY <2>1 DEF GoodCarts, JobsFit
  <2>3. carts \in Seq(Cart) /\ carts' = Append(carts, CartOf({<<x, q>>}))
    BY <1>3 DEF CreateCart, GoodCarts, TypeOK
  <2>4. carts' # <<>> /\ FirstCart' = IF carts = <<>> THEN {<<x, q>>} ELSE FirstCart
    <3> DEFINE new == CartOf({<<x, q>>})
    <3>1. new.products = {<<x, q>>}
      BY DEF CartOf
    <3> HIDE DEF new
    <3>2. CASE carts = <<>>
      <4>1. carts' # <<>> /\ carts'[1] = new
        BY <2>3, <3>2 DEF new
      <4>2. QED
        BY <3>1, <3>2, <4>1 DEF FirstCart
    <3>3. CASE carts # <<>>
      BY <2>3, <3>3 DEF FirstCart, new
    <3>4. QED
      BY <3>2, <3>3
  <2>5. SameUntouched(FirstCart')
    BY <2>2, <2>4 DEF SameUntouched, Untouched, LineOf, FirstCart
  <2>6. QED
    BY <1>0, <2>1, <2>4, <2>5, CartsChange
<1>4. CASE ReadCart(c, x)
  <2>1. carts' = carts /\ carts # <<>>
    BY <1>4 DEF ReadCart
  <2>2. CASE NothingToReduce(FirstCart, x, q)
    BY <1>0, <1>4, <2>2, CartsStay DEF ReadCart, Goes
  <2>3. CASE ~ NothingToReduce(FirstCart, x, q)
    <3>1. /\ at[j] = "read" /\ at' = [at EXCEPT ![j] = "write"]
          /\ copy' = [copy EXCEPT ![j] = UpdateCartUtil(FirstCart, x, q)]
      BY <1>4, <2>3 DEF ReadCart, Goes
    <3>2. x \in request[c].items
      BY <3>1 DEF GoodCarts, JobsFit
    <3>3. SameUntouched(UpdateCartUtil(FirstCart, x, q))
      BY <3>2 DEF SameUntouched, Untouched, UpdateCartUtil, Without, LineOf
    <3>4. QED
      BY <1>0, <2>1, <3>1, <3>3, CartsStay
  <2>4. QED
    BY <2>2, <2>3
<1>5. CASE UpdateCart(c, x)
  <2>1. at[j] = "write" /\ at' = [at EXCEPT ![j] = "done"] /\ copy' = copy
    BY <1>5 DEF UpdateCart, Goes
  <2>2. carts # <<>> /\ SameUntouched(copy[j]) /\ GoodLines(copy[j], Allowed)
    BY <1>0, <2>1 DEF CopiesAgree, GoodCarts
  <2>3. carts' # <<>> /\ FirstCart' = copy[j]
    BY <1>5, <2>2, FirstAfterWrite DEF UpdateCart
  <2>4. SameUntouched(FirstCart')
    BY <2>2, <2>3
  <2>5. QED
    BY <1>0, <2>1, <2>3, <2>4, CartsChange
<1>6. QED
  BY <1>1, <1>2, <1>3, <1>4, <1>5 DEF AddStep

LEMMA WholeStepAgrees ==
  ASSUME GoodCarts, CopiesAgree, [Next]_vars, NEW c \in Calls, WholeStep(c)
  PROVE  CopiesAgree' /\ KeepsUntouched
<1> DEFINE j == <<c, Whole>>
<1>0. j \in Jobs /\ at \in [Jobs -> Stations] /\ copy \in [Jobs -> SUBSET Lines]
  BY DEF Jobs, GoodCarts, TypeOK
<1>1. CASE ReadForClear(c)
  <2>1. request[c].items = Items
    BY <1>1 DEF ReadForClear, GoodCarts, TypeOK, Requests, NoRequest
  <2>2. \A i \in Items : ~ Untouched(i)
    BY <2>1 DEF Untouched
  <2>3. SameUntouched({})
    BY <2>2 DEF SameUntouched
  <2>4. QED
    BY <1>0, <1>1, <2>3, CartsStay DEF ReadForClear, Goes
<1>2. CASE ReadForOrder(c)
  <2>1. SameUntouched(Without(FirstCart, request[c].items))
    BY DEF SameUntouched, Untouched, Without, LineOf
  <2>2. QED
    BY <1>0, <1>2, <2>1, CartsStay DEF ReadForOrder, ReadFails, Goes
<1>3. CASE AbortOrder(c)
  BY <1>0, <1>3, CartsStay DEF AbortOrder, Goes
<1>4. CASE ClearCart(c) \/ CommitOrder(c)
  <2>1. at[j] \in {"write", "again"} /\ at' = [at EXCEPT ![j] = at'[j]] /\ copy' = copy
    BY <1>0, <1>4 DEF ClearCart, CommitOrder, Goes
  <2>2. carts # <<>> /\ SameUntouched(copy[j]) /\ GoodLines(copy[j], Allowed)
    BY <1>0, <2>1 DEF CopiesAgree, GoodCarts
  <2>3. carts' # <<>> /\ FirstCart' = copy[j]
    BY <1>4, <2>2, FirstAfterWrite DEF ClearCart, CommitOrder
  <2>4. SameUntouched(FirstCart')
    BY <2>2, <2>3
  <2>5. QED
    BY <1>0, <2>1, <2>3, <2>4, CartsChange
<1>5. QED
  BY <1>1, <1>2, <1>3, <1>4 DEF WholeStep

LEMMA StepAgrees == GoodCarts /\ CopiesAgree /\ [Next]_vars => CopiesAgree' /\ KeepsUntouched
<1> SUFFICES ASSUME GoodCarts, CopiesAgree, [Next]_vars
             PROVE  CopiesAgree' /\ KeepsUntouched
  OBVIOUS
<1>1. ASSUME NEW c \in Calls, NEW r \in Menu, Start(c, r)
      PROVE  CopiesAgree' /\ KeepsUntouched
  <2>1. \A j \in Jobs : at'[j] \in {"write", "again"} => at[j] \in {"write", "again"}
    BY <1>1 DEF Start
  <2>2. QED
    BY <1>1, <2>1, CartsStay DEF Start
<1>2. CASE UNCHANGED vars \/ ChangeShelf \/ Quiet
  BY <1>2, CartsStay DEF vars, ChangeShelf, Quiet
<1>3. QED
  BY <1>1, <1>2, AddStepAgrees, WholeStepAgrees DEF Next

(* However calls overlap, no step changes the line of an item that no      *)
(* request has named: lost updates are about the calls' own items.         *)
THEOREM UntouchedKept == Spec => UntouchedStays
<1>1. Init => CopiesAgree
  BY DEF Init, CopiesAgree
<1>2. GoodCarts /\ CopiesAgree /\ [Next]_vars =>
        [\A i \in Items : Untouched(i)' => LineOf(FirstCart, i)' = LineOf(FirstCart, i)]_vars
  BY StepAgrees DEF KeepsUntouched
<1>3. QED
  BY <1>1, <1>2, InitGood, NextGood, StepAgrees, PTL DEF Spec, UntouchedStays

-----------------------------------------------------------------------------
(* For SecondCartNeedsRace.  Jobs that do anything are jobs of their call; *)
(* calls that are under way together do not run alone.                     *)
JobsBelong ==
  \A c \in Calls, x \in Items \cup {Whole} :
    at[<<c, x>>] # "idle" => request[c] # NoRequest /\ <<c, x>> \in JobsOf(c)

Together == \A c, d \in Calls : c # d /\ UnderWay(c) /\ UnderWay(d) => ~ alone[c]

(* The additions that are about to create a cart, and those that had       *)
(* company.  While somebody else can still create a cart, or has, every    *)
(* cart has a creator of its own that had company.                         *)
News == {c \in Calls : \E i \in Items : at[<<c, i>>] = "new"}
Racers == {c \in Calls : request[c].kind = "add" /\ ~ alone[c]}
Asking == {c \in Calls : request[c] # NoRequest}

Raced ==
  /\ IsFiniteSet(Asking)
  /\ carts # <<>> => \A c \in News : ~ alone[c]
  /\ carts # <<>> /\ (News # {} \/ Len(carts) > 1) => Cardinality(Racers \ News) >= Len(carts)

Racing == JobsBelong /\ Together /\ Raced

LEMMA RacersFinite ==
  ASSUME Raced, NEW S \in SUBSET Racers
  PROVE  IsFiniteSet(S) /\ Cardinality(S) \in Nat
<1>1. S \subseteq Asking
  BY DEF Racers, Asking, NoRequest
<1> QED
  BY <1>1, FS_Subset, FS_CardinalityType DEF Raced

(* A step that takes no racer back and lets no job create a cart.          *)
LEMMA MoreRacers ==
  ASSUME Raced, IsFiniteSet(Asking'), Racers' \subseteq Asking',
         carts # <<>>, Len(carts') = Len(carts),
         News' \subseteq News, Racers \subseteq Racers', \A c \in News' : ~ alone'[c]
  PROVE  Raced'
<1>1. Racers \ News \subseteq Racers' \ News'
  OBVIOUS
<1>2. /\ IsFiniteSet(Racers' \ News')
      /\ Cardinality(Racers \ News) <= Cardinality(Racers' \ News')
      /\ Cardinality(Racers' \ News') \in Nat /\ Cardinality(Racers \ News) \in Nat
  <2>1. IsFiniteSet(Racers' \ News')
    BY FS_Subset
  <2> QED
    BY <1>1, <2>1, FS_Subset, FS_CardinalityType
<1>3. ASSUME News' # {} \/ Len(carts') > 1
      PROVE  Cardinality(Racers' \ News') >= Len(carts')
  <2>1. Cardinality(Racers \ News) >= Len(carts)
    BY <1>3 DEF Raced
  <2>2. Len(carts) <= Cardinality(Racers \ News)
    BY <2>1
  <2> QED
    BY <2>1, <1>2
<1> QED
  BY <1>3 DEF Raced

(* A job goes on: its call stays the same, and is under way already.       *)
LEMMA JobStays ==
  ASSUME TypeOK, JobsBelong, Together, NEW c \in Calls, NEW x \in Items \cup {Whole},
         at[<<c, x>>] \notin {"idle", "done", "unread", "failed"}, at' = [at EXCEPT ![<<c, x>>] = at'[<<c, x>>]],
         UNCHANGED History
  PROVE  JobsBelong' /\ Together'
<1>1. /\ <<c, x>> \in Jobs /\ at \in [Jobs -> Stations] /\ UNCHANGED <<request, alone>>
      /\ <<c, x>> \in JobsOf(c) /\ request[c] # NoRequest
  BY DEF Jobs, TypeOK, History, JobsBelong
<1>2. \A j \in Jobs : j # <<c, x>> => at'[j] = at[j]
  BY <1>1
<1>3. \A d \in Calls : JobsOf(d)' = JobsOf(d) /\ JobsOf(d) \subseteq {d} \X (Items \cup {Whole})
  <2>1. \A d \in Calls : request[d].items \subseteq Items
    BY DEF TypeOK, Requests, NoRequest
  <2> QED
    BY <1>1, <2>1 DEF JobsOf
<1>4. JobsBelong'
  <2>1. ASSUME NEW d \in Calls, NEW y \in Items \cup {Whole}, at'[<<d, y>>] # "idle"
        PROVE  request[d] # NoRequest /\ <<d, y>> \in JobsOf(d)
    <3>1. <<d, y>> \in Jobs
      BY DEF Jobs
    <3>2. CASE <<d, y>> = <<c, x>>
      BY <3>2, <1>1
    <3>3. CASE <<d, y>> # <<c, x>>
      BY <2>1, <3>1, <3>3, <1>2 DEF JobsBelong
    <3> QED
      BY <3>2, <3>3
  <2> QED
    BY <1>1, <1>3, <2>1 DEF JobsBelong
<1>5. \A d \in Calls : UnderWay(d)' => UnderWay(d)
  <2>1. ASSUME NEW d \in Calls, NEW j \in JobsOf(d), at'[j] \notin {"idle", "done", "unread", "failed"}
        PROVE  UnderWay(d)
    <3>1. j \in Jobs
      BY <1>3 DEF Jobs
    <3>2. CASE j = <<c, x>>
      BY <3>2 DEF UnderWay
    <3>3. CASE j # <<c, x>>
      BY <2>1, <3>1, <3>3, <1>2 DEF UnderWay
    <3> QED
      BY <3>2, <3>3
  <2> QED
    BY <1>3, <2>1 DEF UnderWay
<1> QED
  BY <1>1, <1>4, <1>5 DEF Together

(* Jobs that do not get to create a cart leave the racers as they are.     *)
LEMMA NoNewCart ==
  ASSUME TypeOK, Raced, NEW c \in Calls, NEW x \in Items \cup {Whole},
         at' = [at EXCEPT ![<<c, x>>] = at'[<<c, x>>]],
         UNCHANGED History, at'[<<c, x>>] # "new" \/ carts' = <<>>,
         \/ carts' = carts
         \/ carts # <<>> /\ Len(carts') = Len(carts)
  PROVE  Raced'
<1>1. UNCHANGED <<Asking, Racers, alone>>
  BY DEF Asking, Racers, History
<1>2. Racers \subseteq Asking
  BY DEF Asking, Racers, NoRequest
<1>3. CASE carts' = <<>>
  BY <1>1, <1>3 DEF Raced
<1>4. CASE carts' # <<>>
  <2>1. News' \subseteq News
    <3>1. ASSUME NEW d \in Calls, NEW i \in Items, at'[<<d, i>>] = "new" PROVE at[<<d, i>>] = "new"
      <4>1. <<d, i>> \in Jobs /\ at \in [Jobs -> Stations]
        BY DEF Jobs, TypeOK
      <4> QED
        BY <4>1, <3>1, <1>4
    <3> QED
      BY <3>1 DEF News
  <2>2. carts # <<>> /\ Len(carts') = Len(carts)
    BY <1>4
  <2> QED
    BY <1>1, <1>2, <2>1, <2>2, MoreRacers DEF Raced
<1> QED
  BY <1>3, <1>4

(* A cart is created: by a call that had company if there is a cart        *)
(* already, or if there is another one about to create one.                *)
LEMMA CreateRaced ==
  ASSUME GoodCarts, Racing, NEW c \in Calls, NEW x \in Items, CreateCart(c, x)
  PROVE  Raced'
<1>1. /\ at[<<c, x>>] = "new" /\ at' = [at EXCEPT ![<<c, x>>] = "done"]
      /\ UNCHANGED <<request, alone>> /\ at \in [Jobs -> Stations] /\ <<c, x>> \in Jobs
      /\ carts \in Seq(Cart) /\ carts' = Append(carts, CartOf({<<x, request[c].quantity>>}))
  BY DEF CreateCart, Goes, History, GoodCarts, TypeOK, Jobs
<1>2. /\ UNCHANGED <<Asking, Racers>> /\ IsFiniteSet(Asking) /\ Raced
  BY <1>1 DEF Asking, Racers, Raced, Racing
<1>3. Len(carts') = Len(carts) + 1 /\ carts' # <<>> /\ Len(carts) \in Nat /\ (Len(carts) = 0 <=> carts = <<>>)
  <2> DEFINE new == CartOf({<<x, request[c].quantity>>})
  <2>1. carts' = Append(carts, new)
    BY <1>1
  <2> HIDE DEF new
  <2> QED
    BY <1>1, <2>1
<1>4. request[c].kind = "add" /\ request[c].items = {x} /\ c \in News
  <2>1. request[c].quantity > 0 /\ request[c] \in Requests \cup {NoRequest} /\ x \in request[c].items
    BY <1>1 DEF GoodCarts, JobsFit, TypeOK
  <2>2. request[c] \in Requests
    BY <2>1 DEF NoRequest
  <2>3. request[c].kind = "add" /\ \E i \in Items : request[c].items = {i}
    BY <2>1, <2>2 DEF Requests
  <2> QED
    BY <1>1, <2>1, <2>3 DEF News
<1>5. News' = News \ {c}
  <2>1. \A i \in Items : at[<<c, i>>] # "idle" => i = x
    BY <1>4 DEF GoodCarts, JobsFit
  <2>2. \A d \in Calls, i \in Items : <<d, i>> \in Jobs
    BY DEF Jobs
  <2>3. \A i \in Items : at'[<<c, i>>] # "new"
    BY <1>1, <2>1, <2>2
  <2>4. \A d \in Calls \ {c}, i \in Items : at'[<<d, i>>] = at[<<d, i>>]
    BY <1>1, <2>2
  <2> QED
    BY <2>3, <2>4 DEF News
<1>6. ASSUME NEW d \in News \ {c} PROVE ~ alone[c] /\ ~ alone[d]
  <2>1. UnderWay(c)
    BY <1>1 DEF Racing, JobsBelong, UnderWay
  <2>2. UnderWay(d)
    BY <1>6 DEF News, Racing, JobsBelong, UnderWay
  <2> QED
    BY <1>6, <2>1, <2>2 DEF News, Racing, Together
<1>7. ASSUME News' # {} \/ Len(carts') > 1 PROVE Cardinality(Racers \ News') >= Len(carts')
  <2>1. ~ alone[c]
    BY <1>2, <1>3, <1>4, <1>5, <1>6, <1>7 DEF Raced
  <2>2. Racers \ News' = (Racers \ News) \cup {c} /\ c \notin Racers \ News
    BY <1>4, <1>5, <2>1 DEF Racers
  <2>3. IsFiniteSet(Racers \ News) /\ Cardinality(Racers \ News) \in Nat
    BY <1>2, RacersFinite
  <2>4. Cardinality(Racers \ News') = Cardinality(Racers \ News) + 1
    BY <2>2, <2>3, FS_AddElement
  <2>5. Cardinality(Racers \ News) >= Len(carts)
    BY <1>2, <1>3, <1>4, <2>3 DEF Raced
  <2> QED
    BY <1>3, <2>3, <2>4, <2>5
<1>8. \A d \in News' : ~ alone'[d]
  BY <1>1, <1>5, <1>6
<1> QED
  BY <1>2, <1>7, <1>8 DEF Raced

LEMMA StartRacing ==
  ASSUME GoodCarts, Racing, NEW c \in Calls, NEW r \in Menu, Start(c, r)
  PROVE  Racing'
<1>1. /\ request[c] = NoRequest /\ request' = [request EXCEPT ![c] = r] /\ carts' = carts
      /\ request \in [Calls -> Requests \cup {NoRequest}] /\ alone \in [Calls -> BOOLEAN]
      /\ at \in [Jobs -> Stations]
      /\ r \in Requests /\ r # NoRequest /\ r.items \subseteq Items
  BY CartsAssumption DEF Start, GoodCarts, TypeOK, Requests, NoRequest
<1>2. /\ JobsOf(c)' = {c} \X (IF r.kind \in {"add", "delete"} THEN r.items ELSE {Whole})
      /\ \A d \in Calls \ {c} : JobsOf(d)' = JobsOf(d) /\ JobsOf(d) \subseteq {d} \X (Items \cup {Whole})
      /\ JobsOf(c)' \subseteq {c} \X (Items \cup {Whole})
  <2>1. \A d \in Calls : request[d].items \subseteq Items
    BY <1>1 DEF Requests, NoRequest
  <2> QED
    BY <1>1, <2>1 DEF JobsOf
<1>3. /\ \A j \in Jobs \ JobsOf(c)' : at'[j] = at[j]
      /\ \A j \in JobsOf(c)' : at'[j] \in {"read", "validate"}
  BY <1>2 DEF Start, Jobs
<1>4. \A x \in Items \cup {Whole} : at[<<c, x>>] = "idle"
  BY <1>1 DEF Racing, JobsBelong
<1>5. JobsBelong'
  <2>1. ASSUME NEW d \in Calls, NEW x \in Items \cup {Whole}, at'[<<d, x>>] # "idle"
        PROVE  request'[d] # NoRequest /\ <<d, x>> \in JobsOf(d)'
    <3>1. <<d, x>> \in Jobs
      BY DEF Jobs
    <3>2. CASE d = c
      BY <1>1, <1>3, <1>4, <2>1, <3>1, <3>2
    <3>3. CASE d # c
      BY <1>1, <1>2, <1>3, <2>1, <3>1, <3>3 DEF Racing, JobsBelong
    <3> QED
      BY <3>2, <3>3
  <2> QED
    BY <2>1 DEF JobsBelong
<1>6. \A d \in Calls \ {c} : UnderWay(d)' <=> UnderWay(d)
  <2>1. \A d \in Calls \ {c} : \A j \in JobsOf(d) : j \in Jobs \ JobsOf(c)'
    BY <1>2 DEF Jobs
  <2> QED
    BY <1>2, <1>3, <2>1 DEF UnderWay
<1>7. /\ alone'[c] <=> \A d \in Calls \ {c} : ~ UnderWay(d)
      /\ \A d \in Calls \ {c} : alone'[d] <=> alone[d] /\ ~ UnderWay(d)
  <2>1. ~ UnderWay(c)
    BY <1>1, <1>4 DEF UnderWay, JobsOf, NoRequest
  <2> QED
    BY <2>1 DEF Start
<1>8. Together'
  BY <1>6, <1>7 DEF Together
<1>9. Raced'
  <2>1. Asking' = Asking \cup {c}
    BY <1>1 DEF Asking
  <2>2. IsFiniteSet(Asking') /\ Raced
    BY <2>1, FS_AddElement DEF Racing, Raced
  <2>3. News' \subseteq News /\ c \notin News'
    <3>1. ASSUME NEW d \in Calls, NEW i \in Items, at'[<<d, i>>] = "new"
          PROVE  at[<<d, i>>] = "new" /\ d # c
      <4>1. <<d, i>> \in Jobs
        BY DEF Jobs
      <4> QED
        BY <3>1, <4>1, <1>3, <1>4
    <3> QED
      BY <3>1 DEF News
  <2>4. Racers \subseteq Racers' /\ Racers' \subseteq Asking'
    <3>1. Racers \subseteq Racers'
      BY <1>1, <1>7 DEF Racers, NoRequest
    <3>2. Racers' \subseteq Asking'
      BY DEF Racers, Asking, NoRequest
    <3> QED
      BY <3>1, <3>2
  <2>5. CASE carts = <<>>
    BY <1>1, <2>2, <2>5 DEF Raced
  <2>6. CASE carts # <<>>
    <3>1. \A d \in News' : ~ alone'[d]
      BY <2>2, <2>3, <2>6, <1>7 DEF Raced, News
    <3> QED
      BY <1>1, <2>2, <2>3, <2>4, <2>6, <3>1, MoreRacers
  <2> QED
    BY <2>5, <2>6
<1> QED
  BY <1>5, <1>8, <1>9 DEF Racing

(* A write replaces the first cart.                                        *)
LEMMA LengthStays ==
  ASSUME carts \in Seq(Cart), carts # <<>>, NEW cart,
         carts' = Upserted(cart) \/ carts' = [carts EXCEPT ![1] = cart]
  PROVE  Len(carts') = Len(carts)
<1>1. carts' = [carts EXCEPT ![1] = cart]
  BY DEF Upserted
<1> QED
  BY <1>1

LEMMA StepRacing == GoodCarts /\ CopiesAgree /\ Racing /\ [Next]_vars => Racing'
<1> SUFFICES ASSUME GoodCarts, CopiesAgree, Racing, [Next]_vars PROVE Racing'
  OBVIOUS
<1>t. /\ TypeOK /\ carts \in Seq(Cart) /\ at \in [Jobs -> Stations]
      /\ \A c \in Calls, x \in Items \cup {Whole} : <<c, x>> \in Jobs
      /\ JobsBelong /\ Together /\ Raced
  BY DEF GoodCarts, TypeOK, Jobs, Racing
<1>1. ASSUME NEW c \in Calls, NEW x \in Items \cup {Whole}, NEW from, NEW to,
             Goes(<<c, x>>, from, to), from \notin {"idle", "done", "unread", "failed"},
             UNCHANGED History, to # "new" \/ carts' = <<>>,
             carts' = carts \/ (carts # <<>> /\ Len(carts') = Len(carts))
      PROVE  Racing'
  <2>1. at[<<c, x>>] = from /\ at' = [at EXCEPT ![<<c, x>>] = at'[<<c, x>>]] /\ at'[<<c, x>>] = to
    BY <1>1, <1>t DEF Goes
  <2> QED
    BY <1>1, <1>t, <2>1, JobStays, NoNewCart DEF Racing
<1>2. ASSUME NEW c \in Calls, NEW i \in Items, AddStep(c, i) PROVE Racing'
  <2>1. CASE Validate(c, i)
    BY <1>1, <2>1 DEF Validate
  <2>2. CASE CountCarts(c, i)
    BY <1>1, <2>2 DEF CountCarts
  <2>3. CASE CreateCart(c, i)
    <3>1. /\ at[<<c, i>>] = "new" /\ at' = [at EXCEPT ![<<c, i>>] = at'[<<c, i>>]] /\ UNCHANGED History
      BY <1>t, <2>3 DEF CreateCart, Goes
    <3> QED
      BY <1>t, <2>3, <3>1, JobStays, CreateRaced DEF Racing
  <2>4. CASE ReadCart(c, i)
    BY <1>1, <2>4 DEF ReadCart
  <2>5. CASE UpdateCart(c, i)
    <3>1. carts # <<>> /\ Len(carts') = Len(carts)
      BY <1>t, <2>5, LengthStays DEF UpdateCart, Goes, CopiesAgree
    <3> QED
      BY <1>1, <2>5, <3>1 DEF UpdateCart
  <2> QED
    BY <1>2, <2>1, <2>2, <2>3, <2>4, <2>5 DEF AddStep
<1>3. ASSUME NEW c \in Calls, WholeStep(c) PROVE Racing'
  <2>1. CASE ReadForClear(c)
    BY <1>1, <2>1 DEF ReadForClear
  <2>2. CASE ClearCart(c) \/ CommitOrder(c)
    <3>1. carts # <<>> /\ Len(carts') = Len(carts)
      BY <1>t, <2>2, LengthStays DEF ClearCart, CommitOrder, Goes, CopiesAgree
    <3> QED
      BY <1>1, <2>2, <3>1 DEF ClearCart, CommitOrder
  <2>3. CASE ReadForOrder(c)
    BY <1>1, <2>3 DEF ReadForOrder, ReadFails
  <2>4. CASE AbortOrder(c)
    BY <1>1, <2>4 DEF AbortOrder
  <2> QED
    BY <1>3, <2>1, <2>2, <2>3, <2>4 DEF WholeStep
<1>4. ASSUME UNCHANGED <<carts, request, at, alone>> PROVE Racing'
  <2>1. News' = News /\ Racers' = Racers /\ Asking' = Asking
    BY <1>4 DEF News, Racers, Asking
  <2>2. Raced'
    BY <1>4, <2>1 DEF Racing, Raced
  <2>3. \A c \in Calls : JobsOf(c)' = JobsOf(c) /\ (UnderWay(c)' <=> UnderWay(c))
    BY <1>4 DEF JobsOf, UnderWay
  <2> QED
    BY <1>4, <2>2, <2>3 DEF Racing, JobsBelong, Together
<1>5. CASE UNCHANGED vars \/ ChangeShelf \/ Quiet
  BY <1>4, <1>5 DEF vars, ChangeShelf, Quiet
<1> QED
  BY <1>2, <1>3, <1>5, StartRacing DEF Next

LEMMA RacingInit == Init => Racing
<1> SUFFICES ASSUME Init PROVE Racing
  OBVIOUS
<1>1. JobsBelong /\ Together
  BY DEF Init, JobsBelong, Together, UnderWay, Jobs
<1>2. Asking = {} /\ News = {}
  BY DEF Init, Asking, News, Jobs
<1>3. Len(carts) <= 1
  <2>1. \A cart : Len(<<cart>>) = 1
    OBVIOUS
  <2>2. Len(carts) = 0 \/ Len(carts) = 1
    BY <2>1, EmptySeq DEF Init
  <2> QED
    BY <2>2
<1> QED
  BY <1>1, <1>2, <1>3, FS_EmptySet DEF Racing, Raced

(* A buyer has a second cart only after a race: of more calls that did not *)
(* run alone than there are carts too many, for any number of calls.       *)
THEOREM SecondCartRaced == Spec => []SecondCartNeedsRace
<1>1. Init => Racing
  BY RacingInit
<1>2. GoodCarts /\ Racing => SecondCartNeedsRace
  <2> SUFFICES ASSUME GoodCarts, Racing, Len(carts) > 1 PROVE Cardinality(Racers) >= Len(carts)
    BY DEF SecondCartNeedsRace, Racers
  <2>1. carts # <<>> /\ Raced
    BY DEF Racing
  <2>2. Cardinality(Racers \ News) >= Len(carts)
    BY <2>1 DEF Raced
  <2>3. /\ Cardinality(Racers) \in Nat /\ Cardinality(Racers \ News) \in Nat
        /\ Cardinality(Racers \ News) <= Cardinality(Racers)
    BY <2>1, RacersFinite, FS_Subset
  <2>4. Len(carts) \in Nat
    BY DEF GoodCarts, TypeOK
  <2> QED
    BY <2>2, <2>3, <2>4
<1>3. Init => CopiesAgree
  BY DEF Init, CopiesAgree
<1> QED
  BY <1>1, <1>2, <1>3, InitGood, NextGood, StepAgrees, StepRacing, PTL DEF Spec

-----------------------------------------------------------------------------
(* For AloneMeansExact.  What a call that has run alone so far has made of *)
(* the first cart, and what its copies are.  The removals of a deletion    *)
(* overwrite each other, but every copy lacks its own item and nothing     *)
(* that was not asked for.                                                 *)
Taken(c, lines) ==
  lines \subseteq before[c] /\ Without(lines, request[c].items) = Without(before[c], request[c].items)

Adds(c) ==
  request[c].kind = "add" => \A i \in request[c].items :
    /\ at[<<c, i>>] = "new" => carts = <<>>
    /\ at[<<c, i>>] = "write" => copy[<<c, i>>] = UpdateCartUtil(before[c], i, request[c].quantity)

Deletes(c) ==
  request[c].kind = "delete" =>
    /\ Taken(c, FirstCart)
    /\ (\E i \in request[c].items : at[<<c, i>>] = "done") =>
         \E i \in request[c].items : Without(FirstCart, {i}) = FirstCart
    /\ \A i \in request[c].items : at[<<c, i>>] = "write" =>
         Taken(c, copy[<<c, i>>]) /\ Without(copy[<<c, i>>], {i}) = copy[<<c, i>>]

Clears(c) ==
  request[c].kind = "clear" =>
    /\ FirstCart = IF at[<<c, Whole>>] = "again" THEN {} ELSE before[c]
    /\ at[<<c, Whole>>] \in {"write", "again"} => copy[<<c, Whole>>] = {}

Takes(c) ==
  request[c].kind = "order" /\ at[<<c, Whole>>] = "write" =>
    copy[<<c, Whole>>] = Without(before[c], request[c].items)

AsFound(c) ==
  /\ request[c].kind \in {"add", "order"} => FirstCart = before[c]
  /\ Adds(c) /\ Deletes(c) /\ Clears(c) /\ Takes(c)

AllAsFound == \A c \in Calls : UnderWay(c) /\ alone[c] => AsFound(c)

(* The steps of a call leave the others where they are.                    *)
LEMMA OthersStay ==
  ASSUME TypeOK, NEW c \in Calls, NEW x \in Items \cup {Whole},
         at' = [at EXCEPT ![<<c, x>>] = at'[<<c, x>>]], UNCHANGED request
  PROVE  \A d \in Calls \ {c} : UnderWay(d)' <=> UnderWay(d)
<1>1. \A d \in Calls : JobsOf(d)' = JobsOf(d) /\ JobsOf(d) \subseteq {d} \X (Items \cup {Whole})
  <2>1. \A d \in Calls : request[d].items \subseteq Items
    BY DEF TypeOK, Requests, NoRequest
  <2> QED
    BY <2>1 DEF JobsOf
<1>2. ASSUME NEW d \in Calls \ {c}, NEW j \in JobsOf(d) PROVE at'[j] = at[j]
  <2>1. j \in Jobs /\ j # <<c, x>> /\ at \in [Jobs -> Stations]
    BY <1>1 DEF Jobs, TypeOK
  <2> QED
    BY <2>1
<1> QED
  BY <1>1, <1>2 DEF UnderWay

(* What the outcome asks of the kinds of requests when the job of the call *)
(* has ended, or the last one of a deletion.                               *)
LEMMA Outcomes ==
  ASSUME NEW c \in Calls, request[c] \in Requests, UNCHANGED <<request, before>>
  PROVE  /\ \A i \in Items : request[c].kind = "add" /\ request[c].items = {i} =>
              /\ at'[<<c, i>>] = "done" /\ FirstCart' = UpdateCartUtil(before[c], i, request[c].quantity)
                   => Outcome(c)'
              /\ at'[<<c, i>>] # "done" /\ FirstCart' = before[c] => Outcome(c)'
         /\ request[c].kind = "clear" =>
              /\ at'[<<c, Whole>>] = "done" /\ FirstCart' = {} => Outcome(c)'
              /\ at'[<<c, Whole>>] # "done" /\ FirstCart' = before[c] => Outcome(c)'
         /\ request[c].kind = "order" =>
              /\ at'[<<c, Whole>>] = "done" /\ FirstCart' = Without(before[c], request[c].items) => Outcome(c)'
              /\ at'[<<c, Whole>>] # "done" /\ FirstCart' = before[c] => Outcome(c)'
         /\ request[c].kind = "delete" /\ Deletes(c)' => Outcome(c)'
<1>1. ASSUME NEW i \in Items, request[c].kind = "add", request[c].items = {i}
      PROVE  /\ at'[<<c, i>>] = "done" /\ FirstCart' = UpdateCartUtil(before[c], i, request[c].quantity)
                  => Outcome(c)'
             /\ at'[<<c, i>>] # "done" /\ FirstCart' = before[c] => Outcome(c)'
  <2>1. AllDone(c)' <=> at'[<<c, i>>] = "done"
    BY <1>1 DEF AllDone, JobsOf
  <2> QED
    BY <1>1, <2>1 DEF Outcome, UpdateCartUtil, Without
<1>2. ASSUME request[c].kind \in {"clear", "order"} PROVE AllDone(c)' <=> at'[<<c, Whole>>] = "done"
  BY <1>2 DEF AllDone, JobsOf
<1>3. ASSUME request[c].kind = "delete", Deletes(c)' PROVE Outcome(c)'
  <2>1. request[c].items # {} /\ Taken(c, FirstCart)'
    <3>1. request[c].items # {}
      <4>1. request[c] \in [kind : {"delete"}, items : (SUBSET Items) \ {{}}, quantity : {-1}]
        BY <1>3 DEF Requests
      <4> QED
        BY <4>1
    <3> QED
      BY <1>3, <3>1 DEF Deletes
  <2>2. CASE AllDone(c)'
    <3>1. \E i \in request[c].items : at'[<<c, i>>] = "done"
      BY <1>3, <2>1, <2>2 DEF AllDone, JobsOf
    <3>2. \E i \in request[c].items : Without(FirstCart', {i}) = FirstCart'
      BY <1>3, <3>1 DEF Deletes, Without
    <3> QED
      BY <1>3, <2>1, <2>2, <3>2 DEF Outcome, Taken, Without
  <2>3. CASE ~ AllDone(c)'
    BY <1>3, <2>1, <2>3 DEF Outcome, Taken, Without
  <2> QED
    BY <2>2, <2>3
<1>4. request[c].kind = "clear" =>
        /\ at'[<<c, Whole>>] = "done" /\ FirstCart' = {} => Outcome(c)'
        /\ at'[<<c, Whole>>] # "done" /\ FirstCart' = before[c] => Outcome(c)'
  BY <1>2 DEF Outcome
<1>5. request[c].kind = "order" =>
        /\ at'[<<c, Whole>>] = "done" /\ FirstCart' = Without(before[c], request[c].items) => Outcome(c)'
        /\ at'[<<c, Whole>>] # "done" /\ FirstCart' = before[c] => Outcome(c)'
  BY <1>2 DEF Outcome, Without
<1> QED
  BY <1>1, <1>3, <1>4, <1>5

(* One step of an addition or of one removal.                              *)
LEMMA AddStepExact ==
  ASSUME GoodCarts, CopiesAgree, JobsBelong, NEW c \in Calls, NEW i \in Items, AddStep(c, i), AsFound(c)
  PROVE  (UnderWay(c)' => AsFound(c)') /\ (~ UnderWay(c)' => Outcome(c)')
<1> DEFINE j == <<c, i>>  q == request[c].quantity
<1>1. /\ j \in Jobs /\ at \in [Jobs -> Stations] /\ copy \in [Jobs -> SUBSET Lines]
      /\ carts \in Seq(Cart) /\ UNCHANGED <<request, before>>
      /\ at[j] \in {"validate", "count", "new", "read", "write"}
      /\ at' = [at EXCEPT ![j] = at'[j]]
  BY DEF Jobs, GoodCarts, TypeOK, AddStep, Validate, CountCarts, CreateCart, ReadCart, UpdateCart,
         Goes, History
<1>2. /\ i \in request[c].items /\ request[c] \in Requests /\ q \in Int
      /\ request[c].kind \in {"add", "delete"}
      /\ at[j] = "new" => q > 0
  <2>1. request[c] \in Requests
    BY <1>1 DEF JobsBelong, GoodCarts, TypeOK
  <2>2. j \in JobsOf(c) /\ i # Whole
    BY <1>1, CartsAssumption DEF JobsBelong
  <2>3. request[c].kind \in {"add", "delete"}
    BY <2>2 DEF JobsOf
  <2> QED
    BY <1>1, <2>1, <2>3 DEF GoodCarts, JobsFit, Requests
<1>3. \A x \in Items : x # i => at'[<<c, x>>] = at[<<c, x>>]
  BY <1>1 DEF Jobs
<1>4. UpdateCart(c, i) => FirstCart' = copy[j] /\ at[j] = "write" /\ at'[j] = "done" /\ copy' = copy
  <2> SUFFICES ASSUME UpdateCart(c, i)
               PROVE  FirstCart' = copy[j] /\ at[j] = "write" /\ at'[j] = "done" /\ copy' = copy
    OBVIOUS
  <2>1. at[j] = "write" /\ at'[j] = "done" /\ copy' = copy /\ carts' = Upserted(CartOf(copy[j]))
    BY <1>1 DEF UpdateCart, Goes
  <2>2. carts # <<>> /\ GoodLines(copy[j], Allowed)
    BY <1>1, <2>1 DEF CopiesAgree, GoodCarts
  <2> QED
    BY <2>1, <2>2, FirstAfterWrite
<1>5. ReadCart(c, i) =>
        /\ UNCHANGED carts
        /\ \/ at'[j] = "failed" /\ UNCHANGED copy
           \/ at'[j] = "write" /\ copy' = [copy EXCEPT ![j] = UpdateCartUtil(FirstCart, i, q)]
  BY <1>1 DEF ReadCart, Goes
<1>6. Validate(c, i) \/ CountCarts(c, i) =>
        /\ UNCHANGED <<carts, copy>>
        /\ at'[j] \in {"count", "read", "failed"} \/ (at'[j] = "new" /\ carts = <<>> /\ q > 0)
  BY <1>1 DEF Validate, CountCarts, Goes
<1>7. CreateCart(c, i) =>
        /\ at[j] = "new" /\ at'[j] = "done" /\ copy' = copy
        /\ carts' = Append(carts, CartOf({<<i, q>>}))
  BY <1>1 DEF CreateCart, Goes
<1>8. UNCHANGED carts => UNCHANGED FirstCart
  BY DEF FirstCart
<1>9. CASE request[c].kind = "add"
  <2>1. request[c].items = {i}
    BY <1>2, <1>9 DEF Requests
  <2>2. UnderWay(c)' <=> at'[j] \notin {"idle", "done", "unread", "failed"}
    <3>1. JobsOf(c)' = {j}
      BY <1>1, <1>9, <2>1 DEF JobsOf
    <3> QED
      BY <3>1 DEF UnderWay
  <2>3. FirstCart = before[c]
    BY <1>9 DEF AsFound
  <2>4. ASSUME at'[j] = "done", FirstCart' = UpdateCartUtil(before[c], i, q)
        PROVE  (UnderWay(c)' => AsFound(c)') /\ (~ UnderWay(c)' => Outcome(c)')
    BY <1>1, <1>2, <1>9, <2>1, <2>2, <2>4, Outcomes
  <2>5. ASSUME at'[j] = "failed", FirstCart' = before[c]
        PROVE  (UnderWay(c)' => AsFound(c)') /\ (~ UnderWay(c)' => Outcome(c)')
    BY <1>1, <1>2, <1>9, <2>1, <2>2, <2>5, Outcomes
  <2>6. ASSUME UNCHANGED carts, at'[j] \notin {"idle", "done", "unread", "failed"},
               at'[j] = "new" => carts = <<>>,
               at'[j] = "write" => copy'[j] = UpdateCartUtil(before[c], i, q)
        PROVE  (UnderWay(c)' => AsFound(c)') /\ (~ UnderWay(c)' => Outcome(c)')
    <3>1. FirstCart' = before'[c] /\ request'[c].kind = "add" /\ request'[c].items = {i}
      BY <1>1, <1>8, <1>9, <2>1, <2>3, <2>6
    <3>2. Adds(c)'
      BY <1>1, <2>6, <3>1 DEF Adds
    <3> QED
      BY <2>2, <2>6, <3>1, <3>2 DEF AsFound, Deletes, Clears, Takes
  <2>7. CASE Validate(c, i) \/ CountCarts(c, i)
    BY <1>6, <1>8, <2>3, <2>5, <2>6, <2>7
  <2>8. CASE CreateCart(c, i)
    <3>1. carts = <<>>
      BY <1>7, <1>9, <2>1, <2>8 DEF AsFound, Adds
    <3>2. FirstCart' = {<<i, q>>}
      <4> DEFINE new == CartOf({<<i, q>>})
      <4>1. new.products = {<<i, q>>}
        BY DEF CartOf
      <4> HIDE DEF new
      <4>2. carts' # <<>> /\ carts'[1] = new
        BY <1>7, <2>8, <3>1 DEF new
      <4> QED
        BY <4>1, <4>2 DEF FirstCart
    <3>3. before[c] = {}
      BY <2>3, <3>1 DEF FirstCart
    <3> QED
      BY <1>2, <1>7, <2>4, <2>8, <3>2, <3>3 DEF UpdateCartUtil, Without
  <2>9. CASE ReadCart(c, i)
    BY <1>1, <1>5, <1>8, <2>3, <2>5, <2>6, <2>9
  <2>10. CASE UpdateCart(c, i)
    BY <1>4, <1>9, <2>1, <2>4, <2>10 DEF AsFound, Adds
  <2> QED
    BY <2>7, <2>8, <2>9, <2>10 DEF AddStep
<1>10. CASE request[c].kind = "delete"
  <2> DEFINE items == request[c].items
  <2>1. q = -1 /\ items \subseteq Items
    BY <1>2, <1>10 DEF Requests
  <2>2. Deletes(c)
    BY DEF AsFound
  <2>3. Deletes(c)' => (UnderWay(c)' => AsFound(c)') /\ (~ UnderWay(c)' => Outcome(c)')
    BY <1>1, <1>2, <1>10, Outcomes DEF AsFound, Adds, Clears, Takes
  <2>4. ASSUME UNCHANGED <<carts, copy>>, at'[j] \notin {"done", "write"} PROVE Deletes(c)'
    BY <1>1, <1>3, <1>8, <2>1, <2>2, <2>4 DEF Deletes, Taken, Without
  <2>5. CASE Validate(c, i) \/ CountCarts(c, i)
    BY <1>6, <2>1, <2>3, <2>4, <2>5
  <2>6. CASE CreateCart(c, i)
    BY <1>2, <1>7, <2>1, <2>6
  <2>7. CASE ReadCart(c, i)
    <3>1. CASE at'[j] = "failed" /\ UNCHANGED copy
      BY <1>5, <2>3, <2>4, <2>7, <3>1
    <3>2. CASE at'[j] = "write" /\ copy' = [copy EXCEPT ![j] = UpdateCartUtil(FirstCart, i, q)]
      <4>1. copy'[j] = Without(FirstCart, {i}) /\ \A x \in Items : x # i => copy'[<<c, x>>] = copy[<<c, x>>]
        BY <1>1, <2>1, <3>2 DEF UpdateCartUtil, Jobs
      <4>2. Taken(c, FirstCart)
        BY <1>10, <2>2 DEF Deletes
      <4>3. Taken(c, copy'[j]) /\ Without(copy'[j], {i}) = copy'[j]
        BY <1>2, <4>1, <4>2 DEF Taken, Without
      <4>4. UNCHANGED <<FirstCart, before, request>>
        BY <1>1, <1>5, <1>8, <2>7
      <4>5. \A x \in items : at'[<<c, x>>] = "write" =>
              Taken(c, copy'[<<c, x>>]) /\ Without(copy'[<<c, x>>], {x}) = copy'[<<c, x>>]
        BY <1>3, <1>10, <2>1, <2>2, <4>1, <4>3 DEF Deletes
      <4>6. (\E x \in items : at'[<<c, x>>] = "done") => \E x \in items : Without(FirstCart, {x}) = FirstCart
        BY <1>3, <1>10, <2>1, <2>2, <3>2 DEF Deletes
      <4>7. Deletes(c)'
        BY <4>2, <4>4, <4>5, <4>6 DEF Deletes, Taken, Without
      <4> QED
        BY <2>3, <4>7
    <3> QED
      BY <1>5, <2>7, <3>1, <3>2
  <2>8. CASE UpdateCart(c, i)
    <3>1. Taken(c, copy[j]) /\ Without(copy[j], {i}) = copy[j]
      BY <1>2, <1>4, <1>10, <2>2, <2>8 DEF Deletes
    <3>2. FirstCart' = copy[j] /\ copy' = copy /\ at'[j] = "done"
      BY <1>4, <2>8
    <3>3. \A x \in items : at'[<<c, x>>] = "write" =>
            Taken(c, copy[<<c, x>>]) /\ Without(copy[<<c, x>>], {x}) = copy[<<c, x>>]
      BY <1>3, <1>10, <2>1, <2>2, <3>2 DEF Deletes
    <3>4. Deletes(c)'
      BY <1>1, <1>2, <3>1, <3>2, <3>3 DEF Deletes, Taken, Without
    <3> QED
      BY <2>3, <3>4
  <2> QED
    BY <2>5, <2>6, <2>7, <2>8 DEF AddStep
<1> QED
  BY <1>2, <1>9, <1>10

(* One step of a clearing, or of an order's branch.                        *)
LEMMA WholeStepExact ==
  ASSUME GoodCarts, CopiesAgree, JobsBelong, NEW c \in Calls, WholeStep(c), AsFound(c)
  PROVE  (UnderWay(c)' => AsFound(c)') /\ (~ UnderWay(c)' => Outcome(c)')
<1> DEFINE j == <<c, Whole>>  items == request[c].items
<1>1. /\ j \in Jobs /\ at \in [Jobs -> Stations] /\ copy \in [Jobs -> SUBSET Lines]
      /\ UNCHANGED <<request, before>> /\ at' = [at EXCEPT ![j] = at'[j]]
      /\ at[j] \in {"read", "write", "again"} /\ at'[j] # "idle"
      /\ request[c].kind \in {"clear", "order"}
  BY DEF Jobs, GoodCarts, TypeOK, WholeStep, ReadForClear, ClearCart, ReadForOrder, ReadFails,
         CommitOrder, AbortOrder, Goes, History
<1>2. request[c] \in Requests
  BY <1>1 DEF JobsBelong, GoodCarts, TypeOK
<1>3. UnderWay(c)' <=> at'[j] \notin {"done", "unread", "failed"}
  <2>1. JobsOf(c)' = {j}
    BY <1>1 DEF JobsOf
  <2> QED
    BY <1>1, <2>1 DEF UnderWay
<1>4. UNCHANGED carts => UNCHANGED FirstCart
  BY DEF FirstCart
<1>5. carts = <<>> => FirstCart = {}
  BY DEF FirstCart
<1>6. ClearCart(c) \/ CommitOrder(c) => FirstCart' = copy[j]
  <2> SUFFICES ASSUME ClearCart(c) \/ CommitOrder(c) PROVE FirstCart' = copy[j]
    OBVIOUS
  <2>1. at[j] \in {"write", "again"}
    BY DEF ClearCart, CommitOrder, Goes
  <2>2. carts # <<>> /\ GoodLines(copy[j], Allowed)
    BY <1>1, <2>1 DEF CopiesAgree, GoodCarts
  <2> QED
    BY <2>2, FirstAfterWrite DEF ClearCart, CommitOrder
<1>7. CASE ReadForClear(c)
  <2>1. /\ request[c].kind = "clear" /\ at[j] = "read" /\ at'[j] \in {"failed", "write"}
        /\ copy'[j] = {} /\ UNCHANGED carts
    BY <1>1, <1>7 DEF ReadForClear, Goes
  <2>2. FirstCart' = before[c]
    BY <1>4, <2>1 DEF AsFound, Clears
  <2> QED
    BY <1>1, <1>2, <1>3, <2>1, <2>2, Outcomes DEF AsFound, Adds, Deletes, Clears, Takes
<1>8. CASE ClearCart(c)
  <2>1. /\ request[c].kind = "clear" /\ at[j] \in {"write", "again"} /\ at'[j] \in {"again", "done"}
        /\ UNCHANGED copy
    BY <1>1, <1>8 DEF ClearCart, Goes
  <2>2. FirstCart' = {} /\ copy'[j] = {}
    BY <1>6, <1>8, <2>1 DEF AsFound, Clears
  <2> QED
    BY <1>1, <1>2, <1>3, <2>1, <2>2, Outcomes DEF AsFound, Adds, Deletes, Clears, Takes
<1>9. CASE ReadForOrder(c) /\ ReadFails(c)
  <2>1. request[c].kind = "order" /\ at'[j] = "unread" /\ UNCHANGED carts
    BY <1>1, <1>9 DEF ReadForOrder, ReadFails, Goes
  <2>2. FirstCart' = before[c]
    BY <1>1, <1>4, <1>9, <2>1 DEF AsFound, ReadFails, Goes
  <2> QED
    BY <1>1, <1>2, <1>3, <2>1, <2>2, Outcomes
<1>12. CASE ReadForOrder(c) /\ ~ ReadFails(c)
  <2>1. /\ request[c].kind = "order" /\ at'[j] = IF carts = <<>> THEN "done" ELSE "write"
        /\ copy'[j] = Without(FirstCart, items) /\ UNCHANGED carts
    BY <1>1, <1>12 DEF ReadForOrder, Goes
  <2>2. FirstCart = before[c] /\ FirstCart' = before[c]
    BY <1>4, <2>1 DEF AsFound
  <2>3. carts = <<>> => FirstCart' = Without(before[c], items)
    BY <1>5, <2>2 DEF Without
  <2> QED
    BY <1>1, <1>2, <1>3, <2>1, <2>2, <2>3, Outcomes DEF AsFound, Adds, Deletes, Clears, Takes, Without
<1>10. CASE CommitOrder(c)
  <2>1. request[c].kind = "order" /\ at[j] = "write" /\ at'[j] = "done"
    BY <1>1, <1>10 DEF CommitOrder, Goes
  <2>2. FirstCart' = Without(before[c], items)
    BY <1>6, <1>10, <2>1 DEF AsFound, Takes
  <2> QED
    BY <1>2, <1>1, <1>3, <2>1, <2>2, Outcomes
<1>11. CASE AbortOrder(c)
  <2>1. request[c].kind = "order" /\ at'[j] = "failed" /\ UNCHANGED carts
    BY <1>1, <1>11 DEF AbortOrder, Goes
  <2>2. FirstCart' = before[c]
    BY <1>4, <2>1 DEF AsFound
  <2> QED
    BY <1>1, <1>2, <1>3, <2>1, <2>2, Outcomes
<1> QED
  BY <1>7, <1>8, <1>9, <1>10, <1>11, <1>12 DEF WholeStep

(* A call begins with the cart as it is; who was alone until now is not.   *)
LEMMA StartExact ==
  ASSUME GoodCarts, Racing, AllAsFound, NEW c \in Calls, NEW r \in Menu, Start(c, r)
  PROVE  AllAsFound' /\ \A d \in Calls : ~ Ends(d)
<1>1. /\ request[c] = NoRequest /\ request' = [request EXCEPT ![c] = r] /\ UNCHANGED <<carts, copy>>
      /\ request \in [Calls -> Requests \cup {NoRequest}]
      /\ before \in [Calls -> SUBSET Lines] /\ before' = [before EXCEPT ![c] = FirstCart]
      /\ alone' = [d \in Calls |-> IF d = c THEN \A other \in Calls : ~ UnderWay(other)
                                            ELSE alone[d] /\ ~ UnderWay(d)]
      /\ at \in [Jobs -> Stations] /\ r \in Requests
  BY CartsAssumption DEF Start, GoodCarts, TypeOK
<1>2. ~ UnderWay(c)
  <2>1. \A x \in Items \cup {Whole} : at[<<c, x>>] = "idle"
    BY <1>1 DEF Racing, JobsBelong
  <2> QED
    BY <1>1, <2>1 DEF UnderWay, JobsOf, NoRequest
<1>3. request'[c] = r /\ before'[c] = FirstCart' /\ FirstCart' = FirstCart
  BY <1>1 DEF FirstCart
<1>4. \A j \in JobsOf(c)' : at'[j] \in {"read", "validate"}
  <2>1. JobsOf(c)' \subseteq Jobs
    BY <1>1, <1>3 DEF JobsOf, Jobs, Requests
  <2> QED
    BY <2>1 DEF Start
<1>5. AsFound(c)'
  <2>1. r.kind \in {"add", "delete"} => \A i \in r.items : at'[<<c, i>>] \in {"read", "validate"}
    BY <1>3, <1>4 DEF JobsOf
  <2>2. r.kind \notin {"add", "delete"} => at'[<<c, Whole>>] \in {"read", "validate"}
    BY <1>3, <1>4 DEF JobsOf
  <2>3. Adds(c)' /\ Deletes(c)'
    BY <1>3, <2>1 DEF Adds, Deletes, Taken, Without
  <2>4. Clears(c)' /\ Takes(c)'
    BY <1>3, <2>2 DEF Clears, Takes
  <2> QED
    BY <1>3, <2>3, <2>4 DEF AsFound
<1>6. \A d \in Calls \ {c} : UnderWay(d)' <=> UnderWay(d)
  <2>1. \A d \in Calls \ {c} : JobsOf(d)' = JobsOf(d) /\ \A j \in JobsOf(d) : j \in Jobs \ JobsOf(c)'
    <3>1. \A d \in Calls : request[d].items \subseteq Items /\ request'[d].items \subseteq Items
      BY <1>1, <1>3 DEF Requests, NoRequest
    <3> QED
      BY <1>1, <3>1 DEF JobsOf, Jobs
  <2>2. \A j \in Jobs \ JobsOf(c)' : at'[j] = at[j]
    BY DEF Start
  <2> QED
    BY <2>1, <2>2 DEF UnderWay
<1>7. \A d \in Calls \ {c} : UnderWay(d) => ~ alone'[d]
  BY <1>1
<1> QED
  BY <1>2, <1>5, <1>6, <1>7 DEF AllAsFound, Ends

LEMMA StepExact ==
  ASSUME GoodCarts, CopiesAgree, Racing, AllAsFound, [Next]_vars
  PROVE  AllAsFound' /\ \A c \in Calls : Ends(c) /\ alone[c] => Outcome(c)'
<1> USE DEF Racing
<1>1. ASSUME NEW c \in Calls, NEW x \in Items \cup {Whole},
             at[<<c, x>>] \notin {"idle", "done", "unread", "failed"}, at' = [at EXCEPT ![<<c, x>>] = at'[<<c, x>>]],
             UNCHANGED <<request, alone>>,
             AsFound(c) => (UnderWay(c)' => AsFound(c)') /\ (~ UnderWay(c)' => Outcome(c)')
      PROVE  AllAsFound' /\ \A d \in Calls : Ends(d) /\ alone[d] => Outcome(d)'
  <2>1. UnderWay(c)
    BY <1>1 DEF JobsBelong, UnderWay
  <2>2. \A d \in Calls \ {c} : UnderWay(d)' <=> UnderWay(d)
    BY <1>1, OthersStay DEF GoodCarts
  <2>3. \A d \in Calls \ {c} : UnderWay(d) => ~ alone[d]
    BY <2>1 DEF Together
  <2> QED
    BY <1>1, <2>1, <2>2, <2>3 DEF AllAsFound, Ends
<1>2. ASSUME NEW c \in Calls, NEW i \in Items, AddStep(c, i)
      PROVE  AllAsFound' /\ \A d \in Calls : Ends(d) /\ alone[d] => Outcome(d)'
  <2>1. /\ at[<<c, i>>] \notin {"idle", "done", "unread", "failed"} /\ at' = [at EXCEPT ![<<c, i>>] = at'[<<c, i>>]]
        /\ UNCHANGED <<request, alone>>
    <3>1. at \in [Jobs -> Stations] /\ <<c, i>> \in Jobs
      BY DEF GoodCarts, TypeOK, Jobs
    <3> QED
      BY <1>2, <3>1 DEF AddStep, Validate, CountCarts, CreateCart, ReadCart, UpdateCart, Goes, History
  <2> QED
    BY <1>1, <1>2, <2>1, AddStepExact
<1>3. ASSUME NEW c \in Calls, WholeStep(c)
      PROVE  AllAsFound' /\ \A d \in Calls : Ends(d) /\ alone[d] => Outcome(d)'
  <2>1. /\ at[<<c, Whole>>] \notin {"idle", "done", "unread", "failed"}
        /\ at' = [at EXCEPT ![<<c, Whole>>] = at'[<<c, Whole>>]] /\ UNCHANGED <<request, alone>>
    <3>1. at \in [Jobs -> Stations] /\ <<c, Whole>> \in Jobs
      BY DEF GoodCarts, TypeOK, Jobs
    <3> QED
      BY <1>3, <3>1 DEF WholeStep, ReadForClear, ClearCart, ReadForOrder, ReadFails, CommitOrder,
                        AbortOrder, Goes, History
  <2> QED
    BY <1>1, <1>3, <2>1, WholeStepExact
<1>4. ASSUME NEW c \in Calls, NEW r \in Menu, Start(c, r)
      PROVE  AllAsFound' /\ \A d \in Calls : Ends(d) /\ alone[d] => Outcome(d)'
  BY <1>4, StartExact
<1>5. ASSUME UNCHANGED <<carts, request, at, copy, before, alone>>
      PROVE  AllAsFound' /\ \A d \in Calls : Ends(d) /\ alone[d] => Outcome(d)'
  <2>1. \A d \in Calls : UnderWay(d)' <=> UnderWay(d)
    BY <1>5 DEF UnderWay, JobsOf
  <2>2. FirstCart' = FirstCart
    BY <1>5 DEF FirstCart
  <2>3. \A d \in Calls : AsFound(d) => AsFound(d)'
    BY <1>5, <2>2 DEF AsFound, Adds, Deletes, Clears, Takes, Taken, Without, UpdateCartUtil
  <2> QED
    BY <1>5, <2>1, <2>3 DEF AllAsFound, Ends
<1>6. CASE UNCHANGED vars \/ ChangeShelf \/ Quiet
  BY <1>5, <1>6 DEF vars, ChangeShelf, Quiet
<1> QED
  BY <1>2, <1>3, <1>4, <1>6 DEF Next

(* A call that ran alone has done to the buyer's cart exactly what it was  *)
(* asked, for any number of calls, items and states of the products: only  *)
(* the removals of one deletion are in each other's way.                   *)
THEOREM CartAloneIsExact == Spec => AloneMeansExact
<1>1. Init => CopiesAgree /\ AllAsFound
  BY DEF Init, CopiesAgree, AllAsFound, UnderWay, JobsOf, NoRequest, Jobs
<1> QED
  BY <1>1, InitGood, RacingInit, NextGood, StepAgrees, StepRacing, StepExact, PTL
     DEF Spec, AloneMeansExact
-----------------------------------------------------------------------------
(* For DoneStays.  What an undisturbed call has left of an item of its own *)
(* is in the cart and in every copy another call is about to write.        *)
Settled(c, i) == request[c].kind \in {"add", "order"} /\ AllDone(c) /\ alone[c] /\ Only(c, i)
Writing(j) == at[j] \in {"write", "again"}

AllSettled ==
  \A c \in Calls, i \in Items : Settled(c, i) =>
    /\ LineOf(FirstCart, i) = Left(c, i)
    /\ \A j \in Jobs : j[1] # c /\ Writing(j) => LineOf(copy[j], i) = Left(c, i)

(* A step of a job <<c, x>>, seen from an item the call does not name: the *)
(* cart's line stays or is the one of the copy, and the copy's line is the *)
(* one it had or the cart's.                                               *)
Apart(j, i) ==
  /\ \/ LineOf(FirstCart, i)' = LineOf(FirstCart, i)
     \/ Writing(j) /\ LineOf(FirstCart, i)' = LineOf(copy[j], i)
  /\ Writing(j)' => \/ LineOf(copy'[j], i) = LineOf(FirstCart, i)
                    \/ Writing(j) /\ copy'[j] = copy[j]

Moves(c, x) ==
  /\ at[<<c, x>>] \notin {"idle", "done", "unread", "failed"}
  /\ at' = [at EXCEPT ![<<c, x>>] = at'[<<c, x>>]]
  /\ UNCHANGED <<request, alone>>
  /\ \A k \in Jobs : k # <<c, x>> => copy'[k] = copy[k]
  /\ \A i \in Items : i \notin request[c].items => Apart(<<c, x>>, i)

LEMMA AddMoves ==
  ASSUME GoodCarts, CopiesAgree, JobsBelong, NEW c \in Calls, NEW x \in Items, AddStep(c, x)
  PROVE  Moves(c, x)
<1> DEFINE j == <<c, x>>
<1>1. /\ j \in Jobs /\ at \in [Jobs -> Stations] /\ copy \in [Jobs -> SUBSET Lines]
      /\ carts \in Seq(Cart)
  BY DEF Jobs, GoodCarts, TypeOK
<1>2. /\ at[j] \notin {"idle", "done", "unread", "failed"} /\ at' = [at EXCEPT ![j] = at'[j]]
      /\ UNCHANGED <<request, alone>> /\ \A k \in Jobs : k # j => copy'[k] = copy[k]
  BY <1>1 DEF AddStep, Validate, CountCarts, CreateCart, ReadCart, UpdateCart, Goes, History
<1>3. x \in request[c].items
  BY <1>2, CartsAssumption DEF JobsBelong, JobsOf
<1>4. ASSUME NEW i \in Items, i \notin request[c].items PROVE Apart(j, i)
  <2>1. CASE Validate(c, x) \/ CountCarts(c, x)
    <3>1. carts' = carts /\ ~ Writing(j)'
      BY <1>1, <2>1 DEF Validate, CountCarts, Goes, Writing
    <3> QED
      BY <3>1 DEF Apart, FirstCart, LineOf
  <2>2. CASE CreateCart(c, x)
    <3>1. ~ Writing(j)' /\ carts' = Append(carts, CartOf({<<x, request[c].quantity>>}))
      BY <1>1, <2>2 DEF CreateCart, Goes, Writing
    <3>2. CASE carts = <<>>
      <4>1. carts' = <<CartOf({<<x, request[c].quantity>>})>>
        BY <3>1, <3>2
      <4>2. FirstCart = {} /\ FirstCart' = {<<x, request[c].quantity>>}
        BY <3>2, <4>1 DEF FirstCart, CartOf
      <4> QED
        BY <1>3, <1>4, <3>1, <4>2 DEF Apart, LineOf
    <3>3. CASE carts # <<>>
      <4>1. Len(carts) \in Nat \ {0} /\ carts' # <<>> /\ carts'[1] = carts[1]
        BY <1>1, <3>1, <3>3
      <4>2. FirstCart' = FirstCart
        BY <3>3, <4>1 DEF FirstCart
      <4> QED
        BY <3>1, <4>2 DEF Apart, LineOf
    <3> QED
      BY <3>2, <3>3
  <2>3. CASE ReadCart(c, x)
    <3>1. FirstCart' = FirstCart
      BY <2>3 DEF ReadCart, FirstCart
    <3>2. Writing(j)' => copy'[j] = UpdateCartUtil(FirstCart, x, request[c].quantity)
      BY <1>1, <2>3 DEF ReadCart, Goes, Writing
    <3>3. LineOf(UpdateCartUtil(FirstCart, x, request[c].quantity), i) = LineOf(FirstCart, i)
      BY <1>3, <1>4 DEF UpdateCartUtil, Without, LineOf
    <3> QED
      BY <3>1, <3>2, <3>3 DEF Apart, LineOf
  <2>4. CASE UpdateCart(c, x)
    <3>1. Writing(j) /\ ~ Writing(j)' /\ carts' = Upserted(CartOf(copy[j]))
      BY <1>1, <2>4 DEF UpdateCart, Goes, Writing
    <3>2. carts # <<>> /\ GoodLines(copy[j], Allowed)
      BY <1>1, <3>1 DEF CopiesAgree, GoodCarts, Writing
    <3>3. FirstCart' = copy[j]
      BY <3>1, <3>2, FirstAfterWrite
    <3> QED
      BY <3>1, <3>3 DEF Apart, LineOf
  <2> QED
    BY <2>1, <2>2, <2>3, <2>4 DEF AddStep
<1> QED
  BY <1>2, <1>4 DEF Moves

LEMMA WholeMoves ==
  ASSUME GoodCarts, CopiesAgree, NEW c \in Calls, WholeStep(c)
  PROVE  Moves(c, Whole)
<1> DEFINE j == <<c, Whole>>
<1>1. j \in Jobs /\ at \in [Jobs -> Stations] /\ copy \in [Jobs -> SUBSET Lines]
  BY DEF Jobs, GoodCarts, TypeOK
<1>2. /\ at[j] \notin {"idle", "done", "unread", "failed"} /\ at' = [at EXCEPT ![j] = at'[j]]
      /\ UNCHANGED <<request, alone>> /\ \A k \in Jobs : k # j => copy'[k] = copy[k]
  BY <1>1 DEF WholeStep, ReadForClear, ClearCart, ReadForOrder, ReadFails, CommitOrder, AbortOrder,
     Goes, History
<1>3. ASSUME NEW i \in Items, i \notin request[c].items PROVE Apart(j, i)
  <2>1. CASE ReadForClear(c)
    BY <1>3, <2>1 DEF ReadForClear, GoodCarts, TypeOK, Requests, NoRequest
  <2>2. CASE ReadForOrder(c)
    <3>1. FirstCart' = FirstCart
      BY <2>2 DEF ReadForOrder, FirstCart
    <3>2. Writing(j)' => copy'[j] = Without(FirstCart, request[c].items)
      BY <1>1, <2>2 DEF ReadForOrder, ReadFails, Goes, Writing
    <3>3. LineOf(Without(FirstCart, request[c].items), i) = LineOf(FirstCart, i)
      BY <1>3 DEF Without, LineOf
    <3> QED
      BY <3>1, <3>2, <3>3 DEF Apart, LineOf
  <2>3. CASE AbortOrder(c)
    <3>1. carts' = carts /\ ~ Writing(j)'
      BY <1>1, <2>3 DEF AbortOrder, Goes, Writing
    <3> QED
      BY <3>1 DEF Apart, FirstCart, LineOf
  <2>4. CASE ClearCart(c) \/ CommitOrder(c)
    <3>1. Writing(j) /\ copy' = copy
      BY <1>1, <2>4 DEF ClearCart, CommitOrder, Goes, Writing
    <3>2. carts # <<>> /\ GoodLines(copy[j], Allowed)
      BY <1>1, <3>1 DEF CopiesAgree, GoodCarts, Writing
    <3>3. FirstCart' = copy[j]
      BY <2>4, <3>2, FirstAfterWrite DEF ClearCart, CommitOrder
    <3> QED
      BY <3>1, <3>3 DEF Apart, LineOf
  <2> QED
    BY <2>1, <2>2, <2>3, <2>4 DEF WholeStep
<1> QED
  BY <1>2, <1>3 DEF Moves

LEMMA MoveSettled ==
  ASSUME GoodCarts, JobsBelong, Together, AllSettled, NEW d \in Calls, NEW x \in Items \cup {Whole},
         Moves(d, x), \A c \in Calls : Ends(c) /\ alone[c] => Outcome(c)'
  PROVE  AllSettled'
<1> DEFINE j == <<d, x>>
<1>1. /\ j \in Jobs /\ at \in [Jobs -> Stations] /\ j \in JobsOf(d) /\ UnderWay(d)
      /\ UNCHANGED <<request, alone>>
      /\ \A c \in Calls : request[c] \in Requests \cup {NoRequest} /\ JobsOf(c)' = JobsOf(c)
  BY DEF Jobs, GoodCarts, TypeOK, Moves, JobsBelong, JobsOf, UnderWay
<1>2. \A k \in Jobs : k # j => at'[k] = at[k] /\ copy'[k] = copy[k]
  BY <1>1 DEF Moves
<1>3. ASSUME NEW c \in Calls, NEW i \in Items, Settled(c, i)'
      PROVE  /\ LineOf(FirstCart, i)' = Left(c, i)
             /\ \A k \in Jobs : k[1] # c /\ Writing(k)' => LineOf(copy'[k], i) = Left(c, i)
  <2>1. /\ request[c].kind \in {"add", "order"} /\ AllDone(c)' /\ alone[c] /\ Only(c, i)
        /\ i \in request[c].items /\ Left(c, i)' = Left(c, i)
    BY <1>1, <1>3 DEF Settled, Only, Left
  <2>2. CASE c # d
    <3>1. \A k \in JobsOf(c) : k \in Jobs /\ k # j
      <4>1. request[c].items \subseteq Items
        BY <1>1 DEF Requests, NoRequest
      <4> QED
        BY <2>2, <4>1 DEF JobsOf, Jobs
    <3>2. Settled(c, i)
      BY <1>1, <1>2, <2>1, <3>1 DEF Settled, AllDone
    <3>3. /\ LineOf(FirstCart, i) = Left(c, i)
          /\ \A k \in Jobs : k[1] # c /\ Writing(k) => LineOf(copy[k], i) = Left(c, i)
      BY <3>2 DEF AllSettled
    <3>4. Apart(j, i)
      BY <2>1, <2>2 DEF Moves, Only
    <3>5. LineOf(FirstCart, i)' = Left(c, i)
      BY <1>1, <2>2, <3>3, <3>4 DEF Apart
    <3>6. ASSUME NEW k \in Jobs, k[1] # c, Writing(k)' PROVE LineOf(copy'[k], i) = Left(c, i)
      <4>1. CASE k = j
        BY <3>3, <3>4, <3>6, <4>1 DEF Apart
      <4>2. CASE k # j
        BY <1>2, <3>3, <3>6, <4>2 DEF Writing
      <4> QED
        BY <4>1, <4>2
    <3> QED
      BY <3>5, <3>6
  <2>3. CASE c = d
    <3>1. Ends(c) /\ Outcome(c)'
      BY <1>1, <2>1, <2>3 DEF Ends, UnderWay, AllDone
    <3>2. LineOf(FirstCart, i)' = Left(c, i)
      <4>1. request[c] \in Requests
        BY <1>1, <2>1 DEF NoRequest
      <4>2. FirstCart' = (IF request[c].kind = "add" THEN UpdateCartUtil(before[c]', i, request[c].quantity)
                          ELSE Without(before[c]', request[c].items))
        BY <1>1, <2>1, <3>1 DEF Outcome
      <4> QED
        BY <1>1, <2>1, <4>2 DEF UpdateCartUtil, Without, LineOf, Left
    <3>3. ASSUME NEW k \in Jobs, k[1] # c PROVE ~ Writing(k)'
      <4>1. PICK e \in Calls, y \in Items \cup {Whole} : k = <<e, y>>
        BY DEF Jobs
      <4>2. e # c /\ at'[k] = at[k]
        BY <1>2, <2>3, <3>3, <4>1
      <4>3. ~ UnderWay(e)
        BY <1>1, <2>1, <2>3, <4>2 DEF Together
      <4>4. at[k] \notin {"write", "again"}
        BY <4>1, <4>3 DEF UnderWay, JobsBelong
      <4> QED
        BY <4>2, <4>4 DEF Writing
    <3> QED
      BY <3>2, <3>3
  <2> QED
    BY <2>2, <2>3
<1>4. \A c \in Calls, i \in Items : Left(c, i)' = Left(c, i)
  BY <1>1 DEF Left
<1> QED
  BY <1>3, <1>4 DEF AllSettled

LEMMA StartSettled ==
  ASSUME GoodCarts, JobsBelong, AllSettled, NEW e \in Calls, NEW r \in Menu, Start(e, r)
  PROVE  AllSettled'
<1>1. /\ request[e] = NoRequest /\ request' = [request EXCEPT ![e] = r] /\ r \in Requests
      /\ UNCHANGED <<carts, copy>> /\ FirstCart' = FirstCart
      /\ request \in [Calls -> Requests \cup {NoRequest}]
  BY CartsAssumption DEF Start, GoodCarts, TypeOK, FirstCart
<1>2. \A j \in Jobs : at'[j] = at[j] \/ at'[j] \in {"validate", "read"}
  BY DEF Start
<1>3. \A c \in Calls \ {e} : JobsOf(c)' = JobsOf(c) /\ \A j \in JobsOf(c) : at'[j] = at[j]
  <2>1. ASSUME NEW c \in Calls \ {e}
        PROVE  JobsOf(c)' = JobsOf(c) /\ \A j \in JobsOf(c) : j \in Jobs /\ j \notin JobsOf(e)'
    <3>1. request'[c] = request[c] /\ request[c].items \subseteq Items
      BY <1>1 DEF Requests, NoRequest
    <3> QED
      BY <3>1 DEF JobsOf, Jobs
  <2> QED
    BY <2>1 DEF Start
<1>4. ASSUME NEW c \in Calls, NEW i \in Items, Settled(c, i)'
      PROVE  Settled(c, i) /\ Left(c, i)' = Left(c, i)
  <2>1. c # e
    <3>1. CASE c = e
      <4>1. request'[e] = r /\ r.kind \in {"add", "order"} /\ i \in r.items
        BY <1>1, <1>4, <3>1 DEF Settled, Only
      <4>2. \E j \in JobsOf(e)' : j \in Jobs
        <5>1. request'[e].kind \in {"add", "order"} /\ i \in request'[e].items
          BY <4>1
        <5>2. CASE request'[e].kind = "add"
          <6>1. <<e, i>> \in JobsOf(e)' /\ <<e, i>> \in Jobs
            BY <5>1, <5>2 DEF JobsOf, Jobs
          <6> QED
            BY <6>1
        <5>3. CASE request'[e].kind = "order"
          <6>1. <<e, Whole>> \in JobsOf(e)' /\ <<e, Whole>> \in Jobs
            BY <5>3 DEF JobsOf, Jobs
          <6> QED
            BY <6>1
        <5> QED
          BY <5>1, <5>2, <5>3
      <4>3. \E j \in JobsOf(e)' : at'[j] \in {"validate", "read"}
        BY <4>2 DEF Start
      <4> QED
        BY <1>4, <3>1, <4>3 DEF Settled, AllDone
    <3> QED
      BY <3>1
  <2>2. request'[c] = request[c] /\ alone[c]
    BY <1>1, <1>4, <2>1 DEF Settled, Start
  <2>3. AllDone(c)
    BY <1>3, <1>4, <2>1 DEF Settled, AllDone
  <2>4. Only(c, i)
    BY <1>1, <1>4, <2>1, <2>2 DEF Settled, Only, NoRequest
  <2> QED
    BY <1>4, <2>2, <2>3, <2>4 DEF Settled, Left
<1>5. ASSUME NEW c \in Calls, NEW i \in Items, Settled(c, i)'
      PROVE  /\ LineOf(FirstCart, i)' = Left(c, i)'
             /\ \A j \in Jobs : j[1] # c /\ Writing(j)' => LineOf(copy'[j], i) = Left(c, i)'
  BY <1>1, <1>2, <1>4, <1>5 DEF AllSettled, Writing, LineOf
<1> QED
  BY <1>1, <1>5 DEF AllSettled

LEMMA StepSettled ==
  ASSUME GoodCarts, CopiesAgree, Racing, AllAsFound, AllSettled, [Next]_vars
  PROVE  AllSettled'
<1>1. \A c \in Calls : Ends(c) /\ alone[c] => Outcome(c)'
  BY StepExact
<1>2. ASSUME NEW c \in Calls, NEW x \in Items, AddStep(c, x) PROVE AllSettled'
  BY <1>1, <1>2, AddMoves, MoveSettled DEF Racing
<1>3. ASSUME NEW c \in Calls, WholeStep(c) PROVE AllSettled'
  BY <1>1, <1>3, WholeMoves, MoveSettled DEF Racing
<1>4. ASSUME NEW c \in Calls, NEW r \in Menu, Start(c, r) PROVE AllSettled'
  BY <1>4, StartSettled DEF Racing
<1>5. CASE UNCHANGED vars \/ ChangeShelf \/ Quiet
  <2>1. UNCHANGED <<carts, request, at, copy, alone>>
    BY <1>5 DEF vars, ChangeShelf, Quiet
  <2> QED
    BY <2>1 DEF AllSettled, Settled, AllDone, Only, Left, LineOf, FirstCart, JobsOf, Writing
<1> QED
  BY <1>2, <1>3, <1>4, <1>5 DEF Next

(* What a call that ran alone has done to an item that only it is about is *)
(* not undone by any later calls, however they overlap: every copy they    *)
(* write was read after it and agrees with it on the item.                 *)
THEOREM DoneIsKept == Spec => []DoneStays
<1>1. Init => CopiesAgree /\ AllAsFound /\ AllSettled
  BY DEF Init, CopiesAgree, AllAsFound, AllSettled, Settled, UnderWay, JobsOf, NoRequest, Jobs
<1>2. AllSettled => DoneStays
  BY DEF AllSettled, Settled, DoneStays
<1> QED
  BY <1>1, <1>2, InitGood, RacingInit, NextGood, StepAgrees, StepRacing, StepExact, StepSettled, PTL
     DEF Spec
=============================================================================
