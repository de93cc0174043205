-------------------------- MODULE ProductsMntProofs --------------------------
(***************************************************************************)
(* What the staff's handlers, the sales and the removal of unused images   *)
(* keep to for every number of calls, products, variations and images: the *)
(* stock is lost only in the one race, images in use stay, products refer  *)
(* to images that exist, and a call that runs alone is exact.              *)
(***************************************************************************)
EXTENDS ProductsMnt, FiniteSetTheorems, WellFoundedInduction, TLAPS

-----------------------------------------------------------------------------
(* Products and their variations.                                          *)

(* A set of numbers has a least one: the smaller numbers of each would be  *)
(* finite sets each within the other.                                      *)
LEMMA Least ==
  ASSUME NEW T, T \subseteq Nat, T # {}
  PROVE  \E x \in T : \A y \in T : x <= y
<1> DEFINE F == {0..x : x \in T}
<1>1. F \subseteq FiniteSubsetsOf(Nat) /\ F # {}
  <2>1. ASSUME NEW x \in T PROVE 0..x \in SUBSET Nat /\ IsFiniteSet(0..x)
    <3>1. 0 \in Int /\ x \in Int
      OBVIOUS
    <3> QED
      BY <3>1, FS_Interval
  <2> QED
    BY <2>1 DEF FiniteSubsetsOf
<1>2. PICK X \in F : \A Y \in F : <<Y, X>> \notin StrictSubsetOrdering(Nat)
  <2> HIDE DEF F
  <2> QED
    BY <1>1, FS_StrictSubsetOrderingWellFounded, WFMin
<1>3. PICK x \in T : X = 0..x
  OBVIOUS
<1>4. ASSUME NEW y \in T, y < x PROVE FALSE
  <2>1. 0..y \in F /\ 0..y \in SUBSET Nat /\ X \in SUBSET Nat
    BY <1>3
  <2>2. 0..y \subseteq X /\ 0..y # X
    BY <1>3, <1>4
  <2> QED
    BY <2>1, <2>2, <1>2 DEF StrictSubsetOrdering
<1> QED
  BY <1>4

Good(d) == d \in Docs /\ DistinctSkus(d)

Shape(d) ==
  /\ d.variations \in Seq(Variations) /\ Len(d.variations) \in Nat
  /\ DOMAIN d.variations = 1..Len(d.variations)
  /\ \A i \in DOMAIN d.variations :
       /\ d.variations[i] \in Variations
       /\ d.variations[i].sku \in Skus /\ d.variations[i].gone \in BOOLEAN
       /\ d.variations[i].stock \in 0..MaxStock
  /\ d.live \in BOOLEAN /\ d.general \subseteq Labels /\ d.images \subseteq Images
  /\ d # None

LEMMA DocShape ==
  ASSUME NEW d \in Docs
  PROVE  Shape(d)
<1>1. d.variations \in Seq(Variations) /\ d.live \in BOOLEAN /\ d.general \subseteq Labels
      /\ d.images \subseteq Images /\ d # None
  BY ProductsAssumption DEF Docs
<1>2. \A i \in DOMAIN d.variations : d.variations[i] \in Variations
  BY <1>1
<1> QED
  BY <1>1, <1>2 DEF Variations, Shape

(* IndexOf finds the first variation of a sku.                             *)
LEMMA IndexOfSku ==
  ASSUME NEW d \in Docs, NEW sku \in SkusOf(d)
  PROVE  IndexOf(d, sku) \in DOMAIN d.variations /\ d.variations[IndexOf(d, sku)].sku = sku
<1> DEFINE T == {i \in DOMAIN d.variations : d.variations[i].sku = sku}
<1>0. Shape(d)
  BY DocShape
<1>1. T \subseteq Nat /\ T # {}
  BY <1>0 DEF SkusOf, Shape
<1>2. PICK x \in T : \A y \in T : x <= y
  <2> HIDE DEF T
  <2> QED
    BY <1>1, Least
<1>3. \A j \in 1..x - 1 : j \in DOMAIN d.variations /\ d.variations[j].sku # sku
  BY <1>0, <1>2 DEF Shape
<1> QED
  BY <1>2, <1>3 DEF IndexOf

(* Another version of a product, whose variations may differ in stock and  *)
(* in being deleted.                                                       *)
Version(d, e) ==
  /\ e \in Docs
  /\ e.images = d.images /\ e.general = d.general /\ e.live = d.live
  /\ DOMAIN e.variations = DOMAIN d.variations
  /\ \A i \in DOMAIN d.variations : e.variations[i].sku = d.variations[i].sku

LEMMA VersionIsGood ==
  ASSUME NEW d, Good(d), NEW e, Version(d, e)
  PROVE  Good(e) /\ SkusOf(e) = SkusOf(d)
  BY DEF Good, DistinctSkus, Version, SkusOf

LEMMA NewVariations ==
  ASSUME NEW d \in Docs, NEW v, DOMAIN v = DOMAIN d.variations,
         v = [i \in DOMAIN d.variations |-> v[i]],
         \A i \in DOMAIN v : v[i] \in Variations /\ v[i].sku = d.variations[i].sku
  PROVE  Version(d, [d EXCEPT !.variations = v]) /\ [d EXCEPT !.variations = v].variations = v
<1>0. Shape(d)
  BY DocShape
<1>1. v \in Seq(Variations)
  <2>1. PICK n \in Nat : DOMAIN v = 1..n
    BY <1>0 DEF Shape
  <2>2. v \in [1..n -> Variations]
    BY <2>1
  <2> QED
    BY <2>2
<1>2. [d EXCEPT !.variations = v] =
        [live |-> d.live, general |-> d.general, variations |-> v, images |-> d.images]
  BY DEF Docs
<1> QED
  BY <1>0, <1>1, <1>2 DEF Docs, Version, Shape

(* Deleting a variation and selling a unit change one variation.           *)
LEMMA DropShape ==
  ASSUME NEW d \in Docs, NEW sku
  PROVE  /\ Version(d, WithoutSku(d, sku))
         /\ \A i \in DOMAIN d.variations :
              WithoutSku(d, sku).variations[i] =
                IF d.variations[i].sku = sku THEN [d.variations[i] EXCEPT !.gone = TRUE] ELSE d.variations[i]
<1> DEFINE v == [i \in DOMAIN d.variations |->
                  IF d.variations[i].sku = sku THEN [d.variations[i] EXCEPT !.gone = TRUE] ELSE d.variations[i]]
<1>0. Shape(d)
  BY DocShape
<1>1. \A i \in DOMAIN d.variations : v[i] \in Variations /\ v[i].sku = d.variations[i].sku
  BY <1>0 DEF Variations, Shape
<1>2. WithoutSku(d, sku) = [d EXCEPT !.variations = v]
  BY DEF WithoutSku
<1>3. DOMAIN v = DOMAIN d.variations /\ v = [i \in DOMAIN d.variations |-> v[i]]
  OBVIOUS
<1>4. Version(d, WithoutSku(d, sku)) /\ WithoutSku(d, sku).variations = v
  <2> HIDE DEF v
  <2> QED
    BY <1>1, <1>2, <1>3, NewVariations
<1> QED
  BY <1>4

LEMMA SaleShape ==
  ASSUME NEW d \in Docs, NEW sku \in SkusOf(d), d.variations[IndexOf(d, sku)].stock > 0
  PROVE  /\ Version(d, LessOne(d, sku))
         /\ \A i \in DOMAIN d.variations \ {IndexOf(d, sku)} : LessOne(d, sku).variations[i] = d.variations[i]
         /\ LessOne(d, sku).variations[IndexOf(d, sku)] = [d.variations[IndexOf(d, sku)] EXCEPT !.stock = @ - 1]
<1> DEFINE n == IndexOf(d, sku)
           v == [d.variations EXCEPT ![n].stock = @ - 1]
<1>0. n \in DOMAIN d.variations /\ Shape(d)
  BY IndexOfSku, DocShape
<1>1. LessOne(d, sku) = [d EXCEPT !.variations = v]
  BY DEF LessOne
<1> HIDE DEF n
<1>2. /\ DOMAIN v = DOMAIN d.variations
      /\ \A i \in DOMAIN d.variations \ {n} : v[i] = d.variations[i]
      /\ v[n] = [d.variations[n] EXCEPT !.stock = @ - 1]
  BY <1>0
<1>3. d.variations[n].stock \in 0..MaxStock /\ d.variations[n].stock > 0 /\ d.variations[n] \in Variations
  BY <1>0 DEF Shape, n
<1>4. d.variations[n].stock - 1 \in 0..MaxStock
  BY <1>3, ProductsAssumption
<1>5. v[n] \in Variations /\ v[n].sku = d.variations[n].sku
  BY <1>2, <1>3, <1>4 DEF Variations
<1>6. \A i \in DOMAIN v : v[i] \in Variations /\ v[i].sku = d.variations[i].sku
  BY <1>0, <1>2, <1>5 DEF Shape
<1>7. v = [i \in DOMAIN d.variations |-> v[i]]
  OBVIOUS
<1>8. Version(d, LessOne(d, sku)) /\ LessOne(d, sku).variations = v
  <2> HIDE DEF v
  <2> QED
    BY <1>1, <1>2, <1>6, <1>7, NewVariations
<1> QED
  BY <1>2, <1>8 DEF n

LEMMA GoodSteps ==
  ASSUME NEW d, Good(d), NEW sku
  PROVE  /\ Good(WithoutSku(d, sku))
         /\ InStock(d, sku) => Good(LessOne(d, sku))
  BY DropShape, SaleShape, VersionIsGood DEF Good, InStock

-----------------------------------------------------------------------------
(* Where calls stand, and what they carry.                                 *)

DocTypes ==
  /\ product \in [Products -> Docs \cup {None}]
  /\ \A p \in Products : product[p] # None => Good(product[p])
  /\ library \subseteq Images /\ avatar \in Images \cup {None}
  /\ lock \in [Products -> Calls \cup {None}]
  /\ shelf \in [Products -> [Skus -> Int]]

CallTypes ==
  /\ at \in [Calls -> Places] /\ request \in [Calls -> Requests \cup {NoRequest}]
  /\ copy \in [Calls -> Docs \cup {None}]
  /\ txn \in [Calls -> {"none", "clean", "stale"}]

SweepTypes ==
  /\ sweep \in [Calls -> [listed : SUBSET Images, page : SUBSET Images, image : Images \cup {None},
                          shop : {"?", "no", "yes"}, users : {"?", "no", "yes"}]]
  /\ \A c \in Calls : /\ at[c] = "idle" => sweep[c] = NoSweep
                      /\ sweep[c].image = None => sweep[c].shop = "?" /\ sweep[c].users = "?"

Stops(kind) ==
  CASE kind = "create" -> {"sku", "images", "write"}
    [] kind = "put" -> {"images", "category", "write"}
    [] kind = "sale" -> {"lock", "run"}
    [] kind = "sweep" -> {"page", "image"}
    [] OTHER -> {"write"}

Placed ==
  \A c \in Calls : IF request[c] = NoRequest THEN at[c] = "idle"
                   ELSE at[c] \in Stops(request[c].kind) \cup Ends

(* What a call will write back is a product with one variation for a sku.  *)
Carries(c) ==
  /\ Is(c, {"create", "put"}) => /\ copy[c] = request[c].doc
                                 /\ at[c] = "write" \/ Is(c, {"create"}) => DistinctSkus(copy[c])
  /\ Is(c, {"delete", "drop"}) => product[request[c].p] # None
  /\ Is(c, {"drop"}) => Good(copy[c])
  /\ Is(c, {"sale"}) /\ copy[c] # None => at[c] = "run" /\ Good(copy[c])
Copies == \A c \in Calls : /\ at[c] = "idle" => copy[c] = None
                           /\ UnderWay(c) => Carries(c)

Locked == \A c \in Calls : /\ at[c] = "run" => lock[request[c].p] = c
                           /\ txn[c] # "none" => at[c] = "run"

Base == DocTypes /\ CallTypes /\ SweepTypes /\ Placed /\ Copies /\ Locked

(* The stock in a copy, as long as the race has not happened.              *)
StockCopied ==
  ~ raced => \A c \in Calls : UnderWay(c) =>
    /\ Is(c, {"drop"}) =>
         \A i \in DOMAIN copy[c].variations :
           copy[c].variations[i].stock = shelf[request[c].p][copy[c].variations[i].sku]
    /\ Is(c, {"sale"}) /\ copy[c] # None /\ txn[c] # "stale" =>
         \A i \in DOMAIN copy[c].variations :
           LET sku == copy[c].variations[i].sku IN
           copy[c].variations[i].stock =
             shelf[request[c].p][sku] - (IF sku = request[c].sku THEN 1 ELSE 0)

(* A removal of unused images that shares its time with somebody.          *)
Sweeps(c) == Is(c, {"sweep"}) /\ UnderWay(c)
Mixed == \A c, d \in Calls : c # d /\ Sweeps(c) /\ UnderWay(d) => mixed

UsedBy(i, h) == <<i, h>> \in Uses

(* Without, every reference that has been looked up still holds.           *)
Resolved ==
  ~ mixed /\ ~ unanswered => \A c \in Calls : UnderWay(c) =>
    /\ Is(c, {"create", "put"}) /\ at[c] \in {"category", "write"} => copy[c].images \subseteq library
    /\ Is(c, {"drop"}) => copy[c].images \subseteq library
    /\ Is(c, {"sale"}) /\ copy[c] # None => copy[c].images \subseteq library
    /\ Is(c, {"avatar"}) => request[c].image \in library
    /\ Is(c, {"sweep"}) => /\ sweep[c].shop = "no" => \A p \in Products : ~ UsedBy(sweep[c].image, p)
                           /\ sweep[c].users = "no" => ~ UsedBy(sweep[c].image, UsersHold)

(* A use that has lasted is not denied by an answer.                       *)
HeldSound ==
  \A c \in Calls :
    /\ held[c] \subseteq Uses
    /\ ~ unanswered /\ sweep[c].shop = "no" => \A p \in Products : <<sweep[c].image, p>> \notin held[c]
    /\ sweep[c].users = "no" => <<sweep[c].image, UsersHold>> \notin held[c]

(* What a call that is alone has made of the data so far.                  *)
Swept(c) ==
  /\ library \subseteq before[c].library
  /\ at[c] = "page" => sweep[c].page = {} /\ sweep[c].image = None
  /\ ~ unanswered =>
       /\ \A i \in before[c].library : (\E h \in Products \cup {UsersHold} : UsedBy(i, h)) => i \in library
       /\ \A i \in (library \cap sweep[c].listed) \ (sweep[c].page \cup {sweep[c].image}) :
            \E h \in Products \cup {UsersHold} : UsedBy(i, h)
       /\ sweep[c].shop = "yes" => \E p \in Products : UsedBy(sweep[c].image, p)
       /\ sweep[c].shop = "no" => \A p \in Products : ~ UsedBy(sweep[c].image, p)
       /\ sweep[c].users = "yes" => UsedBy(sweep[c].image, UsersHold)
       /\ sweep[c].users = "no" => ~ UsedBy(sweep[c].image, UsersHold)

OnItsOwn ==
  \A c \in Calls : before[c] # None =>
    /\ UnderWay(c) /\ \A d \in Calls \ {c} : ~ UnderWay(d)
    /\ product = before[c].product /\ Uses = before[c].uses
    /\ ~ Is(c, {"sweep"}) => library = before[c].library
    /\ Is(c, {"sweep"}) => Swept(c)
    /\ Is(c, {"drop"}) => copy[c] = WithoutSku(product[request[c].p], request[c].sku)
    /\ Is(c, {"sale"}) /\ copy[c] # None =>
         /\ InStock(product[request[c].p], request[c].sku)
         /\ copy[c] = LessOne(product[request[c].p], request[c].sku)

Inv == Base /\ StockBalanced /\ StockCopied /\ Mixed /\ ImagesThere /\ Resolved /\ HeldSound /\ OnItsOwn

LEMMA RequestShape ==
  ASSUME NEW r \in Requests
  PROVE  /\ r # NoRequest
         /\ r.kind \in {"create", "put", "delete", "drop", "sale"} => r.p \in Products
         /\ r.kind \in {"create", "put"} => r.doc \in Docs
         /\ r.kind \in {"drop", "sale"} => r.sku \in Skus
         /\ r.kind \in {"avatar", "upload"} => r.image \in Images
  BY DEF Requests, NoRequest

LEMMA CallTypesStep ==
  ASSUME Base, NEW c \in Calls, (\E r \in Menu : Starts(c, r)) \/ Steps(c)
  PROVE  CallTypes'
<1>1. ASSUME NEW r \in Menu, StartCreate(c, r) \/ StartPut(c, r)
      PROVE  CallTypes'
  <2>1. r \in Requests /\ r.doc \in Docs
    BY <1>1, ProductsAssumption, RequestShape DEF StartCreate, StartPut
  <2> QED
    BY <1>1, <2>1 DEF StartCreate, StartPut, Begin, Base, CallTypes, Places, docs, progress, stockHistory
<1>2. ASSUME NEW r \in Menu, StartDelete(c, r)
      PROVE  CallTypes'
  <2>1. r \in Requests /\ r.p \in Products
    BY <1>2, ProductsAssumption, RequestShape DEF StartDelete
  <2>2. Active(product[r.p]) => WithoutSku(product[r.p], r.sku) \in Docs
    <3>1. ASSUME Active(product[r.p]) PROVE Good(product[r.p])
      BY <2>1, <3>1 DEF Base, DocTypes, Active
    <3> QED
      BY <3>1, GoodSteps DEF Good
  <2> QED
    BY <1>2, <2>1, <2>2 DEF StartDelete, Begin, Base, CallTypes, Places, docs, progress, stockHistory
<1>3. ASSUME NEW r \in Menu, StartSale(c, r) \/ StartUpload(c, r) \/ StartAvatar(c, r) \/ StartCategory(c, r)
             \/ StartLabel(c, r) \/ StartSweep(c, r)
      PROVE  CallTypes'
  BY <1>3, ProductsAssumption, RequestShape DEF StartSale, StartUpload, StartAvatar, StartCategory, StartLabel,
     StartSweep, Begin, Base, DocTypes, CallTypes, Places, docs, progress, stockHistory
<1>4. CASE CheckSku(c) \/ ResolveImages(c) \/ CheckAttributes(c) \/ LastPage(c)
  BY <1>4, ProductsAssumption, RequestShape DEF CheckSku, ResolveImages, CheckAttributes, LastPage, Goes, Base,
     DocTypes, CallTypes, Places, docs, progress, stockHistory
<1>5. CASE WriteWhole(c) \/ WriteDeletion(c)
  <2>1. CASE WriteWhole(c)
    BY <2>1, RequestShape DEF WriteWhole, Goes, Outdated, Base, DocTypes, CallTypes, Places, docs, progress,
       stockHistory
  <2>2. CASE WriteDeletion(c)
    BY <2>2, RequestShape DEF WriteDeletion, Goes, Outdated, Base, DocTypes, CallTypes, Places, docs, progress,
       stockHistory
  <2> QED
    BY <1>5, <2>1, <2>2
<1>6. CASE LockSale(c) \/ OpenTransaction(c)
  BY <1>6, ProductsAssumption, RequestShape DEF LockSale, OpenTransaction, Goes, Base, DocTypes, CallTypes, Places,
     docs, progress, stockHistory
<1>7. CASE ReadStock(c)
  <2>1. request[c].p \in Products
    BY <1>7, RequestShape DEF ReadStock, Base, Placed, CallTypes, Stops, Ends
  <2>2. InStock(product[request[c].p], request[c].sku) => LessOne(product[request[c].p], request[c].sku) \in Docs
    <3>1. ASSUME InStock(product[request[c].p], request[c].sku) PROVE Good(product[request[c].p])
      BY <2>1, <3>1 DEF Base, DocTypes, InStock, Active
    <3> QED
      BY <3>1, GoodSteps DEF Good
  <2> QED
    BY <1>7, <2>1, <2>2 DEF ReadStock, Leaves, Base, CallTypes, Places, docs, progress, stockHistory
<1>8. CASE Commit(c) \/ Conflict(c) \/ Fail(c)
  BY <1>8, ProductsAssumption, RequestShape DEF Commit, Conflict, Fail, Leaves, Base, DocTypes, CallTypes, Places,
     docs, progress, stockHistory
<1>9. CASE WriteUpload(c) \/ WriteAvatar(c) \/ WriteCategory(c) \/ WriteLabel(c)
  BY <1>9, ProductsAssumption, RequestShape DEF WriteUpload, WriteAvatar, WriteCategory, WriteLabel, Goes, Base,
     DocTypes, CallTypes, Places, docs, progress, stockHistory
<1>10. CASE ListPage(c) \/ NextImage(c) \/ AskProducts(c) \/ AskUsers(c) \/ RemoveOrKeep(c)
  BY <1>10, ProductsAssumption, RequestShape DEF ListPage, NextImage, AskProducts, AskUsers, RemoveOrKeep, Goes,
     Base, DocTypes, CallTypes, Places, docs, progress, stockHistory
<1> QED
  BY <1>1, <1>2, <1>3, <1>4, <1>5, <1>6, <1>7, <1>8, <1>9, <1>10 DEF Starts, Steps

LEMMA PlacedStep ==
  ASSUME Base, NEW c \in Calls, (\E r \in Menu : Starts(c, r)) \/ Steps(c)
  PROVE  Placed'
<1>1. ASSUME NEW r \in Menu, StartCreate(c, r) \/ StartPut(c, r)
      PROVE  Placed'
  BY <1>1, ProductsAssumption, RequestShape DEF StartCreate, StartPut, Begin, Base, CallTypes, Placed, Stops, Ends,
     Is, docs, progress, stockHistory, NoRequest, UnderWay
<1>2. ASSUME NEW r \in Menu, StartDelete(c, r)
      PROVE  Placed'
  BY <1>2, ProductsAssumption, RequestShape DEF StartDelete, Begin, Base, CallTypes, Placed, Stops, Ends, Is, docs,
     progress, stockHistory, NoRequest, UnderWay
<1>3. ASSUME NEW r \in Menu, StartSale(c, r) \/ StartUpload(c, r) \/ StartAvatar(c, r) \/ StartCategory(c, r)
             \/ StartLabel(c, r) \/ StartSweep(c, r)
      PROVE  Placed'
  BY <1>3, ProductsAssumption, RequestShape DEF StartSale, StartUpload, StartAvatar, StartCategory, StartLabel,
     StartSweep, Begin, Base, CallTypes, Placed, Stops, Ends, Is, docs, progress, stockHistory, NoRequest, UnderWay
<1>4. CASE CheckSku(c) \/ ResolveImages(c) \/ CheckAttributes(c) \/ LastPage(c)
  BY <1>4, ProductsAssumption, RequestShape DEF CheckSku, ResolveImages, CheckAttributes, LastPage, Goes, Base,
     CallTypes, Placed, Stops, Ends, Is, docs, progress, stockHistory, NoRequest, UnderWay
<1>5. CASE WriteWhole(c) \/ WriteDeletion(c)
  BY <1>5, ProductsAssumption, RequestShape DEF WriteWhole, WriteDeletion, Goes, Outdated, Base, CallTypes, Placed,
     Stops, Ends, Is, docs, progress, stockHistory, NoRequest, UnderWay
<1>6. CASE LockSale(c) \/ OpenTransaction(c)
  BY <1>6, ProductsAssumption, RequestShape DEF LockSale, OpenTransaction, Goes, Base, CallTypes, Placed, Stops,
     Ends, Is, docs, progress, stockHistory, NoRequest, UnderWay
<1>7. CASE ReadStock(c)
  BY <1>7, ProductsAssumption, RequestShape DEF ReadStock, Leaves, Base, CallTypes, Placed, Stops, Ends, Is, docs,
     progress, stockHistory, NoRequest, UnderWay
<1>8. CASE Commit(c) \/ Conflict(c) \/ Fail(c)
  BY <1>8, ProductsAssumption, RequestShape DEF Commit, Conflict, Fail, Leaves, Base, CallTypes, Placed, Stops, Ends,
     Is, docs, progress, stockHistory, NoRequest, UnderWay
<1>9. CASE WriteUpload(c) \/ WriteAvatar(c) \/ WriteCategory(c) \/ WriteLabel(c)
  BY <1>9, ProductsAssumption, RequestShape DEF WriteUpload, WriteAvatar, WriteCategory, WriteLabel, Goes, Base,
     CallTypes, Placed, Stops, Ends, Is, docs, progress, stockHistory, NoRequest, UnderWay
<1>10. CASE ListPage(c) \/ NextImage(c) \/ AskProducts(c) \/ AskUsers(c) \/ RemoveOrKeep(c)
  BY <1>10, ProductsAssumption, RequestShape DEF ListPage, NextImage, AskProducts, AskUsers, RemoveOrKeep, Goes,
     Base, CallTypes, Placed, Stops, Ends, Is, docs, progress, stockHistory, NoRequest, UnderWay
<1> QED
  BY <1>1, <1>2, <1>3, <1>4, <1>5, <1>6, <1>7, <1>8, <1>9, <1>10 DEF Starts, Steps

LEMMA LockedStep ==
  ASSUME Base, NEW c \in Calls, (\E r \in Menu : Starts(c, r)) \/ Steps(c)
  PROVE  Locked'
<1>1. ASSUME NEW r \in Menu, StartCreate(c, r) \/ StartPut(c, r)
      PROVE  Locked'
  BY <1>1, ProductsAssumption, RequestShape DEF StartCreate, StartPut, Begin, Base, DocTypes, CallTypes, Placed,
     Stops, Ends, Locked, Acquire, Free, Release, Is, UnderWay, docs, progress, stockHistory
<1>2. ASSUME NEW r \in Menu, StartDelete(c, r)
      PROVE  Locked'
  BY <1>2, ProductsAssumption, RequestShape DEF StartDelete, Begin, Base, DocTypes, CallTypes, Placed, Stops, Ends,
     Locked, Acquire, Free, Release, Is, UnderWay, docs, progress, stockHistory
<1>3. ASSUME NEW r \in Menu, StartSale(c, r) \/ StartUpload(c, r) \/ StartAvatar(c, r) \/ StartCategory(c, r)
             \/ StartLabel(c, r) \/ StartSweep(c, r)
      PROVE  Locked'
  BY <1>3, ProductsAssumption, RequestShape DEF StartSale, StartUpload, StartAvatar, StartCategory, StartLabel,
     StartSweep, Begin, Base, DocTypes, CallTypes, Placed, Stops, Ends, Locked, Acquire, Free, Release, Is, UnderWay,
     docs, progress, stockHistory
<1>4. CASE CheckSku(c) \/ ResolveImages(c) \/ CheckAttributes(c) \/ LastPage(c)
  BY <1>4, ProductsAssumption, RequestShape DEF CheckSku, ResolveImages, CheckAttributes, LastPage, Goes, Base,
     DocTypes, CallTypes, Placed, Stops, Ends, Locked, Acquire, Free, Release, Is, UnderWay, docs, progress,
     stockHistory
<1>5. CASE WriteWhole(c) \/ WriteDeletion(c)
  BY <1>5, ProductsAssumption, RequestShape DEF WriteWhole, WriteDeletion, Goes, Outdated, Base, DocTypes, CallTypes,
     Placed, Stops, Ends, Locked, Acquire, Free, Release, Is, UnderWay, docs, progress, stockHistory
<1>6. CASE LockSale(c) \/ OpenTransaction(c)
  BY <1>6, ProductsAssumption, RequestShape DEF LockSale, OpenTransaction, Goes, Base, DocTypes, CallTypes, Placed,
     Stops, Ends, Locked, Acquire, Free, Release, Is, UnderWay, docs, progress, stockHistory
<1>7. CASE ReadStock(c)
  BY <1>7, ProductsAssumption, RequestShape DEF ReadStock, Leaves, Base, DocTypes, CallTypes, Placed, Stops, Ends,
     Locked, Acquire, Free, Release, Is, UnderWay, docs, progress, stockHistory
<1>8. CASE Commit(c) \/ Conflict(c) \/ Fail(c)
  <2>1. CASE Commit(c)
    <3>1. /\ request' = request /\ at' = [at EXCEPT ![c] = "done"] /\ txn' = [txn EXCEPT ![c] = "none"]
          /\ lock' = Release(lock, DOMAIN lock, c)
      BY <2>1 DEF Commit, Leaves
    <3>2. SUFFICES ASSUME NEW d \in Calls
                   PROVE  /\ at'[d] = "run" => lock'[request'[d].p] = d
                          /\ txn'[d] # "none" => at'[d] = "run"
      BY DEF Locked
    <3>3. at'[d] = "run" => d # c /\ at[d] = "run" /\ lock[request[d].p] = d
      BY <3>1 DEF Base, CallTypes, Locked
    <3>4. at[d] = "run" => request[d].p \in DOMAIN lock
      <4>1. at[d] = "run" => request[d] \in Requests /\ request[d].kind \in {"create", "put", "delete", "drop", "sale"}
        BY DEF Base, CallTypes, Placed, Stops, Ends
      <4> QED
        BY <4>1, RequestShape DEF Base, DocTypes
    <3>5. at'[d] = "run" => lock'[request'[d].p] = d
      BY <3>1, <3>3, <3>4 DEF Release
    <3>6. txn'[d] # "none" => at'[d] = "run"
      BY <3>1 DEF Base, CallTypes, Locked
    <3> QED
      BY <3>5, <3>6
  <2>2. CASE Conflict(c)
    BY <2>2, RequestShape DEF Conflict, Leaves, Base, DocTypes, CallTypes, Placed, Stops, Ends, Locked, Acquire,
       Free, Release, Is, UnderWay, docs, progress, stockHistory
  <2>3. CASE Fail(c)
    BY <2>3, RequestShape DEF Fail, Leaves, Base, DocTypes, CallTypes, Placed, Stops, Ends, Locked, Acquire, Free,
       Release, Is, UnderWay, docs, progress, stockHistory
  <2> QED
    BY <1>8, <2>1, <2>2, <2>3
<1>9. CASE WriteUpload(c) \/ WriteAvatar(c) \/ WriteCategory(c) \/ WriteLabel(c)
  BY <1>9, ProductsAssumption, RequestShape DEF WriteUpload, WriteAvatar, WriteCategory, WriteLabel, Goes, Base,
     DocTypes, CallTypes, Placed, Stops, Ends, Locked, Acquire, Free, Release, Is, UnderWay, docs, progress,
     stockHistory
<1>10. CASE ListPage(c)
  BY <1>10, ProductsAssumption, RequestShape DEF ListPage, Goes, Base, DocTypes, CallTypes, Placed, Stops, Ends,
     Locked, Acquire, Free, Release, Is, UnderWay, docs, progress, stockHistory
<1>11. CASE NextImage(c)
  <2>1. (at' = at \/ at' = [at EXCEPT ![c] = "page"]) /\ UNCHANGED <<request, lock, txn>>
    BY <1>11 DEF NextImage, Goes
  <2> QED
    BY <1>11, <2>1 DEF NextImage, Base, CallTypes, Locked
<1>12. CASE AskProducts(c)
  BY <1>12, ProductsAssumption, RequestShape DEF AskProducts, Goes, Base, DocTypes, CallTypes, Placed, Stops, Ends,
     Locked, Acquire, Free, Release, Is, UnderWay, docs, progress, stockHistory
<1>13. CASE AskUsers(c)
  BY <1>13, ProductsAssumption, RequestShape DEF AskUsers, Goes, Base, DocTypes, CallTypes, Placed, Stops, Ends,
     Locked, Acquire, Free, Release, Is, UnderWay, docs, progress, stockHistory
<1>14. CASE RemoveOrKeep(c)
  BY <1>14, ProductsAssumption, RequestShape DEF RemoveOrKeep, Goes, Base, DocTypes, CallTypes, Placed, Stops, Ends,
     Locked, Acquire, Free, Release, Is, UnderWay, docs, progress, stockHistory
<1> QED
  BY <1>1, <1>2, <1>3, <1>4, <1>5, <1>6, <1>7, <1>8, <1>9, <1>10, <1>11, <1>12, <1>13, <1>14 DEF Starts, Steps

(* What the steps of a removal do to its record.                           *)
SweepRecords == [listed : SUBSET Images, page : SUBSET Images, image : Images \cup {None},
                 shop : {"?", "no", "yes"}, users : {"?", "no", "yes"}]

Moves(c, listed, page, image, shop, users) ==
  /\ sweep' \in [Calls -> SweepRecords]
  /\ \A d \in Calls \ {c} : sweep'[d] = sweep[d]
  /\ sweep'[c].listed = listed /\ sweep'[c].page = page /\ sweep'[c].image = image
  /\ sweep'[c].shop = shop /\ sweep'[c].users = users

LEMMA MoveTo ==
  ASSUME SweepTypes, NEW c \in Calls, NEW s \in SweepRecords, sweep' = [sweep EXCEPT ![c] = s]
  PROVE  Moves(c, s.listed, s.page, s.image, s.shop, s.users)
  BY DEF SweepTypes, SweepRecords, Moves

LEMMA SweepFields ==
  ASSUME SweepTypes, NEW c \in Calls
  PROVE  /\ sweep[c] \in SweepRecords
         /\ sweep[c].listed \subseteq Images /\ sweep[c].page \subseteq Images
         /\ sweep[c].image \in Images \cup {None}
         /\ sweep[c].shop \in {"?", "no", "yes"} /\ sweep[c].users \in {"?", "no", "yes"}
         /\ sweep[c].image = None => sweep[c].shop = "?" /\ sweep[c].users = "?"
  BY DEF SweepTypes, SweepRecords

LEMMA ListPageMoves ==
  ASSUME Base, NEW c \in Calls, ListPage(c)
  PROVE  \E page \in SUBSET library :
           /\ page # {} /\ page \cap sweep[c].listed = {}
           /\ Moves(c, sweep[c].listed \cup page, page, sweep[c].image, sweep[c].shop, sweep[c].users)
<1>1. SweepTypes /\ library \subseteq Images
  BY DEF Base, DocTypes
<1>2. PICK page \in (SUBSET (library \ sweep[c].listed)) \ {{}} :
        sweep' = [sweep EXCEPT ![c].listed = @ \cup page, ![c].page = page]
  BY DEF ListPage
<1> DEFINE s == [[sweep[c] EXCEPT !.listed = sweep[c].listed \cup page] EXCEPT !.page = page]
<1>3. sweep' = [sweep EXCEPT ![c] = s]
  BY <1>1, <1>2 DEF SweepTypes
<1>4. /\ s.listed = sweep[c].listed \cup page
      /\ s.page = page
      /\ s.image = sweep[c].image
      /\ s.shop = sweep[c].shop
      /\ s.users = sweep[c].users
  <2>1. sweep[c] \in SweepRecords
    BY <1>1, SweepFields
  <2> QED
    BY <2>1 DEF SweepRecords
<1>5. s \in SweepRecords
  <2>1. sweep[c] \in SweepRecords
    BY <1>1, SweepFields
  <2> QED
    BY <1>1, <2>1 DEF SweepRecords
<1> HIDE DEF s
<1>6. Moves(c, sweep[c].listed \cup page, page, sweep[c].image, sweep[c].shop, sweep[c].users)
  BY <1>1, <1>3, <1>4, <1>5, MoveTo
<1> QED
  BY <1>6, <1>2

LEMMA NextImageMoves ==
  ASSUME Base, NEW c \in Calls, NextImage(c), sweep[c].page # {}
  PROVE  \E i \in sweep[c].page : Moves(c, sweep[c].listed, sweep[c].page \ {i}, i, sweep[c].shop, sweep[c].users)
<1>1. SweepTypes /\ library \subseteq Images
  BY DEF Base, DocTypes
<1>2. PICK i \in sweep[c].page : sweep' = [sweep EXCEPT ![c].page = @ \ {i}, ![c].image = i]
  BY DEF NextImage
<1> DEFINE s == [[sweep[c] EXCEPT !.page = sweep[c].page \ {i}] EXCEPT !.image = i]
<1>3. sweep' = [sweep EXCEPT ![c] = s]
  BY <1>1, <1>2 DEF SweepTypes
<1>4. /\ s.listed = sweep[c].listed
      /\ s.page = sweep[c].page \ {i}
      /\ s.image = i
      /\ s.shop = sweep[c].shop
      /\ s.users = sweep[c].users
  <2>1. sweep[c] \in SweepRecords
    BY <1>1, SweepFields
  <2> QED
    BY <2>1 DEF SweepRecords
<1>5. s \in SweepRecords
  <2>1. sweep[c] \in SweepRecords
    BY <1>1, SweepFields
  <2> QED
    BY <1>1, <2>1 DEF SweepRecords
<1> HIDE DEF s
<1>6. Moves(c, sweep[c].listed, sweep[c].page \ {i}, i, sweep[c].shop, sweep[c].users)
  BY <1>1, <1>3, <1>4, <1>5, MoveTo
<1> QED
  BY <1>6, <1>2

LEMMA AskProductsMoves ==
  ASSUME Base, NEW c \in Calls, AskProducts(c)
  PROVE  \E answer \in {"no", "yes"} :
           /\ \/ answer = Answer(\E p \in Products : <<sweep[c].image, p>> \in Uses) /\ UNCHANGED unanswered
              \/ answer = "no" /\ unanswered' = TRUE
           /\ Moves(c, sweep[c].listed, sweep[c].page, sweep[c].image, answer, sweep[c].users)
<1>1. SweepTypes /\ library \subseteq Images
  BY DEF Base, DocTypes
<1>2. PICK answer \in {"no", "yes"} :
        /\ \/ answer = Answer(\E p \in Products : <<sweep[c].image, p>> \in Uses) /\ UNCHANGED unanswered
           \/ answer = "no" /\ unanswered' = TRUE
        /\ sweep' = [sweep EXCEPT ![c].shop = answer]
  BY DEF AskProducts, Answer
<1> DEFINE s == [sweep[c] EXCEPT !.shop = answer]
<1>3. sweep' = [sweep EXCEPT ![c] = s]
  BY <1>2
<1>4. /\ s.listed = sweep[c].listed
      /\ s.page = sweep[c].page
      /\ s.image = sweep[c].image
      /\ s.shop = answer
      /\ s.users = sweep[c].users
  <2>1. sweep[c] \in SweepRecords
    BY <1>1, SweepFields
  <2> QED
    BY <2>1 DEF SweepRecords
<1>5. s \in SweepRecords
  <2>1. sweep[c] \in SweepRecords
    BY <1>1, SweepFields
  <2> QED
    BY <1>1, <2>1 DEF SweepRecords
<1> HIDE DEF s
<1>6. Moves(c, sweep[c].listed, sweep[c].page, sweep[c].image, answer, sweep[c].users)
  BY <1>1, <1>3, <1>4, <1>5, MoveTo
<1> QED
  BY <1>6, <1>2

LEMMA AskUsersMoves ==
  ASSUME Base, NEW c \in Calls, AskUsers(c)
  PROVE  Moves(c, sweep[c].listed, sweep[c].page, sweep[c].image, sweep[c].shop, Answer(avatar = sweep[c].image))
<1>1. SweepTypes /\ library \subseteq Images
  BY DEF Base, DocTypes
<1> DEFINE s == [sweep[c] EXCEPT !.users = Answer(avatar = sweep[c].image)]
<1>3. sweep' = [sweep EXCEPT ![c] = s]
  BY DEF AskUsers
<1>4. /\ s.listed = sweep[c].listed
      /\ s.page = sweep[c].page
      /\ s.image = sweep[c].image
      /\ s.shop = sweep[c].shop
      /\ s.users = Answer(avatar = sweep[c].image)
  <2>1. sweep[c] \in SweepRecords
    BY <1>1, SweepFields
  <2> QED
    BY <2>1 DEF SweepRecords
<1>5. s \in SweepRecords
  <2>1. sweep[c] \in SweepRecords
    BY <1>1, SweepFields
  <2> QED
    BY <1>1, <2>1 DEF SweepRecords, Answer
<1> HIDE DEF s
<1>6. Moves(c, sweep[c].listed, sweep[c].page, sweep[c].image, sweep[c].shop, Answer(avatar = sweep[c].image))
  BY <1>1, <1>3, <1>4, <1>5, MoveTo
<1> QED
  BY <1>6

LEMMA RemoveOrKeepMoves ==
  ASSUME Base, NEW c \in Calls, RemoveOrKeep(c)
  PROVE  Moves(c, sweep[c].listed, sweep[c].page, None, "?", "?")
<1>1. SweepTypes /\ library \subseteq Images
  BY DEF Base, DocTypes
<1> DEFINE s == [sweep[c] EXCEPT !.image = None, !.shop = "?", !.users = "?"]
<1>3. sweep' = [sweep EXCEPT ![c] = s]
  BY DEF RemoveOrKeep
<1>4. /\ s.listed = sweep[c].listed
      /\ s.page = sweep[c].page
      /\ s.image = None
      /\ s.shop = "?"
      /\ s.users = "?"
  <2>1. sweep[c] \in SweepRecords
    BY <1>1, SweepFields
  <2> QED
    BY <2>1 DEF SweepRecords
<1>5. s \in SweepRecords
  <2>1. sweep[c] \in SweepRecords
    BY <1>1, SweepFields
  <2> QED
    BY <1>1, <2>1 DEF SweepRecords
<1> HIDE DEF s
<1>6. Moves(c, sweep[c].listed, sweep[c].page, None, "?", "?")
  BY <1>1, <1>3, <1>4, <1>5, MoveTo
<1> QED
  BY <1>6

(* A step of one call leaves the others where they are; only a snapshot    *)
(* may go stale.                                                           *)
Others(c) ==
  \A d \in Calls \ {c} :
    /\ at'[d] = at[d] /\ request'[d] = request[d] /\ copy'[d] = copy[d] /\ sweep'[d] = sweep[d]
    /\ txn'[d] = txn[d] \/ (txn[d] = "clean" /\ txn'[d] = "stale")

LEMMA OthersStay ==
  ASSUME Base, NEW c \in Calls, (\E r \in Menu : Starts(c, r)) \/ Steps(c)
  PROVE  Others(c)
<1>1. ASSUME NEW r \in Menu, StartCreate(c, r) \/ StartPut(c, r) \/ StartDelete(c, r)
      PROVE  Others(c)
  BY <1>1 DEF StartCreate, StartPut, StartDelete, Begin, Base, CallTypes, Others, docs, progress, stockHistory
<1>2. ASSUME NEW r \in Menu, StartSale(c, r) \/ StartUpload(c, r) \/ StartAvatar(c, r) \/ StartCategory(c, r)
             \/ StartLabel(c, r) \/ StartSweep(c, r)
      PROVE  Others(c)
  BY <1>2 DEF StartSale, StartUpload, StartAvatar, StartCategory, StartLabel, StartSweep, Begin, Base, CallTypes,
     Others, docs, progress, stockHistory
<1>3. CASE CheckSku(c) \/ ResolveImages(c) \/ CheckAttributes(c) \/ LastPage(c)
  BY <1>3 DEF CheckSku, ResolveImages, CheckAttributes, LastPage, Goes, Base, CallTypes, Others, docs, progress,
     stockHistory
<1>4. CASE WriteWhole(c) \/ WriteDeletion(c)
  BY <1>4 DEF WriteWhole, WriteDeletion, Goes, Outdated, Base, CallTypes, Others, docs, progress, stockHistory
<1>5. CASE LockSale(c) \/ OpenTransaction(c)
  BY <1>5 DEF LockSale, OpenTransaction, Goes, Base, CallTypes, Others, docs, progress, stockHistory
<1>6. CASE ReadStock(c)
  BY <1>6 DEF ReadStock, Leaves, Base, CallTypes, Others, docs, progress, stockHistory
<1>7. CASE Commit(c) \/ Conflict(c) \/ Fail(c)
  BY <1>7 DEF Commit, Conflict, Fail, Leaves, Base, CallTypes, Others, docs, progress, stockHistory
<1>8. CASE WriteUpload(c) \/ WriteAvatar(c) \/ WriteCategory(c) \/ WriteLabel(c)
  BY <1>8 DEF WriteUpload, WriteAvatar, WriteCategory, WriteLabel, Goes, Base, CallTypes, Others, docs, progress,
     stockHistory
<1>9. CASE ListPage(c)
  BY <1>9, ListPageMoves DEF Moves, ListPage, Others, Goes, docs, Base, CallTypes
<1>10. CASE NextImage(c)
  <2>1. CASE sweep[c].page # {}
    BY <1>10, <2>1, NextImageMoves DEF Moves, NextImage, Others, Goes, docs
  <2>2. CASE sweep[c].page = {}
    BY <1>10, <2>2 DEF NextImage, Others, Goes, docs, Base, CallTypes
  <2> QED
    BY <2>1, <2>2
<1>11. CASE AskProducts(c)
  BY <1>11, AskProductsMoves DEF Moves, AskProducts, Others, Goes, docs, Base, CallTypes
<1>12. CASE AskUsers(c)
  BY <1>12, AskUsersMoves DEF Moves, AskUsers, Others, Goes, docs, Base, CallTypes
<1>13. CASE RemoveOrKeep(c)
  BY <1>13, RemoveOrKeepMoves DEF Moves, RemoveOrKeep, Others, Goes, docs, Base, CallTypes
<1> QED
  BY <1>1, <1>2, <1>3, <1>4, <1>5, <1>6, <1>7, <1>8, <1>9, <1>10, <1>11, <1>12, <1>13 DEF Starts, Steps

LEMMA SweepTypesStep ==
  ASSUME Base, NEW c \in Calls, (\E r \in Menu : Starts(c, r)) \/ Steps(c)
  PROVE  SweepTypes'
<1>1. ASSUME NEW r \in Menu, StartCreate(c, r) \/ StartPut(c, r) \/ StartDelete(c, r)
      PROVE  SweepTypes'
  BY <1>1 DEF StartCreate, StartPut, StartDelete, Begin, Base, CallTypes, SweepTypes, docs, progress, stockHistory,
     UnderWay
<1>2. ASSUME NEW r \in Menu, StartSale(c, r) \/ StartUpload(c, r) \/ StartAvatar(c, r) \/ StartCategory(c, r)
             \/ StartLabel(c, r) \/ StartSweep(c, r)
      PROVE  SweepTypes'
  BY <1>2 DEF StartSale, StartUpload, StartAvatar, StartCategory, StartLabel, StartSweep, Begin, Base, CallTypes,
     SweepTypes, docs, progress, stockHistory, UnderWay
<1>3. CASE CheckSku(c) \/ ResolveImages(c) \/ CheckAttributes(c) \/ LastPage(c)
  BY <1>3 DEF CheckSku, ResolveImages, CheckAttributes, LastPage, Goes, Base, CallTypes, SweepTypes, docs, progress,
     stockHistory, UnderWay
<1>4. CASE WriteWhole(c) \/ WriteDeletion(c)
  BY <1>4 DEF WriteWhole, WriteDeletion, Goes, Outdated, Base, CallTypes, SweepTypes, docs, progress, stockHistory,
     UnderWay
<1>5. CASE LockSale(c) \/ OpenTransaction(c)
  BY <1>5 DEF LockSale, OpenTransaction, Goes, Base, CallTypes, SweepTypes, docs, progress, stockHistory, UnderWay
<1>6. CASE ReadStock(c)
  BY <1>6 DEF ReadStock, Leaves, Base, CallTypes, SweepTypes, docs, progress, stockHistory, UnderWay
<1>7. CASE Commit(c) \/ Conflict(c) \/ Fail(c)
  BY <1>7 DEF Commit, Conflict, Fail, Leaves, Base, CallTypes, SweepTypes, docs, progress, stockHistory, UnderWay
<1>8. CASE WriteUpload(c) \/ WriteAvatar(c) \/ WriteCategory(c) \/ WriteLabel(c)
  BY <1>8 DEF WriteUpload, WriteAvatar, WriteCategory, WriteLabel, Goes, Base, CallTypes, SweepTypes, docs, progress,
     stockHistory, UnderWay
<1>9. CASE ListPage(c)
  <2>1. PICK page \in SUBSET library : Moves(c, sweep[c].listed \cup page, page, sweep[c].image, sweep[c].shop,
        sweep[c].users)
    BY <1>9, ListPageMoves
  <2> QED
    BY <1>9, <2>1 DEF Moves, ListPage, Goes, Base, SweepTypes, SweepRecords, CallTypes
<1>10. CASE NextImage(c)
  <2>1. CASE sweep[c].page # {}
    <3>1. at' = at
      BY <1>10, <2>1 DEF NextImage
    <3>2. \A i \in sweep[c].page : i \in Images
      BY <2>1 DEF Base, SweepTypes
    <3> QED
      BY <1>10, <2>1, <3>1, <3>2, NextImageMoves, ProductsAssumption DEF Moves, NextImage, Base, SweepTypes,
         SweepRecords
  <2>2. CASE sweep[c].page = {}
    BY <1>10, <2>2 DEF NextImage, Goes, Base, CallTypes, SweepTypes
  <2> QED
    BY <2>1, <2>2
<1>11. CASE AskProducts(c)
  <2>1. PICK answer \in {"no", "yes"} :
          Moves(c, sweep[c].listed, sweep[c].page, sweep[c].image, answer, sweep[c].users)
    BY <1>11, AskProductsMoves
  <2> QED
    BY <1>11, <2>1 DEF Moves, AskProducts, Goes, Base, SweepTypes, SweepRecords, CallTypes
<1>12. CASE AskUsers(c)
  BY <1>12, AskUsersMoves DEF Moves, AskUsers, Goes, Base, SweepTypes, SweepRecords, CallTypes
<1>13. CASE RemoveOrKeep(c)
  BY <1>13, RemoveOrKeepMoves DEF Moves, RemoveOrKeep, Goes, Base, SweepTypes, SweepRecords, CallTypes
<1> QED
  BY <1>1, <1>2, <1>3, <1>4, <1>5, <1>6, <1>7, <1>8, <1>9, <1>10, <1>11, <1>12, <1>13 DEF Starts, Steps

(* What a call under way writes is a product that every sku names once.    *)
Keeps == \A p \in Products : product[p] # None => product'[p] # None

(* A version of a product goes into the collection.                        *)
LEMMA GoodWrite ==
  ASSUME Base, NEW c \in Calls, WriteWhole(c) \/ WriteDeletion(c) \/ Commit(c)
  PROVE  /\ request[c].p \in Products
         /\ Good(product'[request[c].p])
         /\ product' = [product EXCEPT ![request[c].p] = product'[request[c].p]]
         /\ WriteWhole(c) \/ Commit(c) => product'[request[c].p] = copy[c]
<1>1. request[c] # NoRequest /\ request[c] \in Requests /\ UnderWay(c)
  BY DEF WriteWhole, WriteDeletion, Commit, Goes, Base, Placed, CallTypes, UnderWay, Ends
<1>2. Carries(c) /\ (Commit(c) => Is(c, {"sale"}))
  BY <1>1 DEF Base, Copies, Commit, Placed, Stops, Ends, Is
<1>3. request[c].p \in Products
  BY <1>1, <1>2, RequestShape DEF WriteWhole, WriteDeletion, Is
<1>4. CASE WriteWhole(c)
  <2>1. Is(c, {"create", "put"}) /\ at[c] = "write" /\ product' = [product EXCEPT ![request[c].p] = copy[c]]
    BY <1>4 DEF WriteWhole, Goes, Store
  <2>2. Good(copy[c])
    BY <1>1, <1>2, <2>1, RequestShape DEF Carries, Is, Good
  <2> QED
    BY <1>3, <2>1, <2>2 DEF Base, DocTypes
<1>5. CASE Commit(c)
  <2>1. Is(c, {"sale"}) /\ copy[c] # None /\ product' = [product EXCEPT ![request[c].p] = copy[c]]
    BY <1>2, <1>5 DEF Commit, Store
  <2>2. Good(copy[c])
    BY <1>2, <2>1 DEF Carries
  <2> QED
    BY <1>3, <2>1, <2>2 DEF Base, DocTypes
<1>6. CASE WriteDeletion(c) /\ Is(c, {"drop"})
  <2>1. product' = [product EXCEPT ![request[c].p] = copy[c]]
    BY <1>6 DEF WriteDeletion, Store, Is
  <2>2. Good(copy[c])
    BY <1>2, <1>6 DEF Carries
  <2>3. ~ WriteWhole(c) /\ ~ Commit(c)
    BY <1>2, <1>6 DEF WriteWhole, Is
  <2> QED
    BY <1>3, <2>1, <2>2, <2>3 DEF Base, DocTypes
<1>7. CASE WriteDeletion(c) /\ Is(c, {"delete"})
  <2> DEFINE d == product[request[c].p]
  <2>1. product' = [product EXCEPT ![request[c].p] = [d EXCEPT !.live = FALSE]]
    BY <1>7 DEF WriteDeletion, Store, Is
  <2>2. d # None /\ d \in Docs /\ Good(d)
    BY <1>2, <1>3, <1>7 DEF Carries, Is, Base, DocTypes
  <2>3. [d EXCEPT !.live = FALSE] \in Docs /\ [d EXCEPT !.live = FALSE].variations = d.variations
    BY <2>2 DEF Docs
  <2>4. Good([d EXCEPT !.live = FALSE])
    BY <2>2, <2>3 DEF Good, DistinctSkus
  <2>5. ~ WriteWhole(c) /\ ~ Commit(c)
    BY <1>2, <1>7 DEF WriteWhole, Is
  <2> QED
    BY <1>3, <2>1, <2>4, <2>5 DEF Base, DocTypes
<1> QED
  BY <1>4, <1>5, <1>6, <1>7 DEF WriteDeletion, Is

LEMMA OnlyWrites ==
  ASSUME Base, NEW c \in Calls, (\E r \in Menu : Starts(c, r)) \/ Steps(c)
  PROVE  Keeps /\ (WriteWhole(c) \/ WriteDeletion(c) \/ Commit(c) \/ UNCHANGED <<product, shelf, raced>>)
<1>1. CASE WriteWhole(c) \/ WriteDeletion(c) \/ Commit(c)
  <2>1. product' = [product EXCEPT ![request[c].p] = product'[request[c].p]] /\ Good(product'[request[c].p])
    BY <1>1, GoodWrite
  <2>2. product'[request[c].p] # None
    BY <2>1, ProductsAssumption DEF Good
  <2> QED
    BY <1>1, <2>1, <2>2 DEF Keeps, Base, DocTypes
<1>2. ASSUME NEW r \in Menu, StartCreate(c, r) \/ StartPut(c, r) \/ StartDelete(c, r) \/ StartSale(c, r)
             \/ StartUpload(c, r) \/ StartAvatar(c, r) \/ StartCategory(c, r) \/ StartLabel(c, r) \/ StartSweep(c, r)
      PROVE  Keeps /\ (WriteWhole(c) \/ WriteDeletion(c) \/ Commit(c) \/ UNCHANGED <<product, shelf, raced>>)
  BY <1>2 DEF StartCreate, StartPut, StartDelete, StartSale, StartUpload, StartAvatar, StartCategory, StartLabel,
     StartSweep, docs, progress, stockHistory, Keeps
<1>3. CASE CheckSku(c) \/ ResolveImages(c) \/ CheckAttributes(c) \/ LastPage(c) \/ LockSale(c)
           \/ OpenTransaction(c) \/ ReadStock(c) \/ Conflict(c) \/ Fail(c) \/ WriteUpload(c) \/ WriteAvatar(c)
           \/ WriteCategory(c) \/ WriteLabel(c) \/ ListPage(c) \/ NextImage(c) \/ AskProducts(c) \/ AskUsers(c)
           \/ RemoveOrKeep(c)
  BY <1>3 DEF CheckSku, ResolveImages, CheckAttributes, LastPage, LockSale, OpenTransaction, ReadStock, Conflict,
     Fail, WriteUpload, WriteAvatar, WriteCategory, WriteLabel, ListPage, NextImage, AskProducts, AskUsers,
     RemoveOrKeep, docs, progress, stockHistory, Keeps
<1> QED
  BY <1>1, <1>2, <1>3 DEF Starts, Steps

LEMMA ShelfTypes ==
  ASSUME Base, NEW c \in Calls, WriteWhole(c) \/ WriteDeletion(c) \/ Commit(c)
  PROVE  shelf' \in [Products -> [Skus -> Int]]
<1>0. shelf \in [Products -> [Skus -> Int]] /\ request[c].p \in Products
  BY GoodWrite DEF Base, DocTypes
<1>1. [q \in Products |-> [s \in Skus |-> 0]] \in [Products -> [Skus -> Int]]
  OBVIOUS
<1>2. CASE WriteWhole(c)
  <2> DEFINE p == request[c].p
             f == [s \in Skus |-> IF s \in SkusOf(copy[c]) THEN copy[c].variations[IndexOf(copy[c], s)].stock ELSE 0]
  <2>1. copy[c] \in Docs
    BY <1>2, GoodWrite DEF Good
  <2>2. \A s \in SkusOf(copy[c]) : copy[c].variations[IndexOf(copy[c], s)].stock \in Int
    <3>1. Shape(copy[c]) /\ MaxStock \in Nat
      BY <2>1, DocShape, ProductsAssumption
    <3> QED
      BY <2>1, <3>1, IndexOfSku DEF Shape
  <2>3. f \in [Skus -> Int]
    <3>1. \A s \in Skus : (IF s \in SkusOf(copy[c]) THEN copy[c].variations[IndexOf(copy[c], s)].stock ELSE 0) \in Int
      BY <2>2
    <3> QED
      BY <3>1
  <2>4. shelf' = IF raced' THEN [q \in Products |-> [s \in Skus |-> 0]] ELSE [shelf EXCEPT ![p] = f]
    BY <1>2 DEF WriteWhole, Counts
  <2> HIDE DEF f
  <2> QED
    BY <1>0, <1>1, <2>3, <2>4
<1>3. CASE Commit(c)
  <2> DEFINE p == request[c].p
             s == request[c].sku
  <2>1. shelf' = IF raced' THEN [q \in Products |-> [t \in Skus |-> 0]]
                 ELSE [shelf EXCEPT ![p] = [shelf[p] EXCEPT ![s] = shelf[p][s] - 1]]
    BY <1>0, <1>3 DEF Commit
  <2>2. s \in Skus
    BY <1>3, RequestShape DEF Base, CallTypes, Placed, Commit, Stops, Ends
  <2>3. [shelf[p] EXCEPT ![s] = shelf[p][s] - 1] \in [Skus -> Int]
    BY <1>0, <2>2
  <2> QED
    BY <1>0, <1>1, <2>1, <2>3
<1>4. CASE WriteDeletion(c)
  BY <1>0, <1>4 DEF WriteDeletion, stockHistory
<1> QED
  BY <1>2, <1>3, <1>4

LEMMA DocTypesStep ==
  ASSUME Base, NEW c \in Calls, (\E r \in Menu : Starts(c, r)) \/ Steps(c)
  PROVE  DocTypes'
<1>1. product' \in [Products -> Docs \cup {None}] /\ (\A p \in Products : product'[p] # None => Good(product'[p]))
      /\ shelf' \in [Products -> [Skus -> Int]]
  <2>1. CASE WriteWhole(c) \/ WriteDeletion(c) \/ Commit(c)
    BY <2>1, GoodWrite, ShelfTypes DEF Base, DocTypes, Good
  <2>2. CASE UNCHANGED <<product, shelf, raced>>
    BY <2>2 DEF Base, DocTypes
  <2> QED
    BY <2>1, <2>2, OnlyWrites
<1>2. library' \subseteq Images /\ avatar' \in Images \cup {None} /\ lock' \in [Products -> Calls \cup {None}]
  <2>1. ASSUME NEW r \in Menu, StartCreate(c, r) \/ StartPut(c, r) \/ StartDelete(c, r) \/ StartSale(c, r)
               \/ StartUpload(c, r) \/ StartAvatar(c, r) \/ StartCategory(c, r) \/ StartLabel(c, r) \/ StartSweep(c,
               r)
        PROVE  library' \subseteq Images /\ avatar' \in Images \cup {None} /\ lock' \in [Products -> Calls \cup {None}]
    BY <2>1 DEF StartCreate, StartPut, StartDelete, StartSale, StartUpload, StartAvatar, StartCategory, StartLabel,
       StartSweep, Base, DocTypes, docs, progress
  <2>2. CASE CheckSku(c) \/ ResolveImages(c) \/ CheckAttributes(c) \/ LastPage(c) \/ OpenTransaction(c)
             \/ WriteWhole(c) \/ WriteDeletion(c) \/ WriteCategory(c) \/ WriteLabel(c) \/ ListPage(c)
             \/ NextImage(c) \/ AskProducts(c) \/ AskUsers(c) \/ RemoveOrKeep(c)
    BY <2>2 DEF CheckSku, ResolveImages, CheckAttributes, LastPage, OpenTransaction, WriteWhole, WriteDeletion,
       WriteCategory, WriteLabel, ListPage, NextImage, AskProducts, AskUsers, RemoveOrKeep, Base, DocTypes, docs,
       progress
  <2>3. CASE LockSale(c)
    BY <2>3, RequestShape DEF LockSale, Free, Acquire, Placed, CallTypes, Stops, Ends, Base, DocTypes, docs, progress
  <2>4. CASE WriteUpload(c) \/ WriteAvatar(c)
    BY <2>4, RequestShape DEF WriteUpload, WriteAvatar, Goes, Is, Placed, CallTypes, Base, DocTypes, docs, progress
  <2>5. CASE ReadStock(c)
    BY <2>5 DEF ReadStock, Leaves, Release, Base, DocTypes, docs, progress
  <2>6. CASE Commit(c) \/ Conflict(c) \/ Fail(c)
    BY <2>6 DEF Commit, Conflict, Fail, Leaves, Release, Store, Base, DocTypes, docs, progress
  <2> QED
    BY <2>1, <2>2, <2>3, <2>4, <2>5, <2>6 DEF Starts, Steps
<1> QED
  BY <1>1, <1>2 DEF DocTypes

LEMMA OthersCarry ==
  ASSUME Base, NEW c \in Calls, (\E r \in Menu : Starts(c, r)) \/ Steps(c), NEW d \in Calls \ {c}
  PROVE  (at'[d] = "idle" => copy'[d] = None) /\ (UnderWay(d)' => Carries(d)')
<1>1. Others(c) /\ Keeps
  BY OthersStay, OnlyWrites
<1>2. at'[d] = at[d] /\ request'[d] = request[d] /\ copy'[d] = copy[d]
  BY <1>1 DEF Others
<1>3. request[d].kind \in {"delete", "drop"} /\ request[d] # NoRequest => request[d].p \in Products
  BY RequestShape DEF Base, CallTypes
<1>4. UnderWay(d) => request[d] # NoRequest
  BY DEF Base, Placed, UnderWay
<1> QED
  BY <1>1, <1>2, <1>3, <1>4 DEF Base, Copies, UnderWay, Carries, Is, Keeps

LEMMA CallerCarries ==
  ASSUME Base, NEW c \in Calls, (\E r \in Menu : Starts(c, r)) \/ Steps(c)
  PROVE  (at'[c] = "idle" => copy'[c] = None) /\ (UnderWay(c)' => Carries(c)')
<1>1. ASSUME NEW r \in Menu, StartCreate(c, r) \/ StartPut(c, r)
      PROVE  (at'[c] = "idle" => copy'[c] = None) /\ (UnderWay(c)' => Carries(c)')
  <2>1. r \in Requests /\ r # NoRequest /\ r.doc \in Docs /\ r.kind \in {"create", "put"}
    BY <1>1, ProductsAssumption, RequestShape DEF StartCreate, StartPut
  <2>2. request'[c] = r /\ copy'[c] = r.doc /\ at'[c] # "idle" /\ at'[c] # "write"
        /\ (at'[c] # "failed" /\ r.kind = "create" => Valid(r.doc))
    BY <1>1 DEF StartCreate, StartPut, Begin, Base, CallTypes
  <2> QED
    BY <2>1, <2>2 DEF Carries, Is, UnderWay, Valid
<1>2. ASSUME NEW r \in Menu, StartDelete(c, r)
      PROVE  (at'[c] = "idle" => copy'[c] = None) /\ (UnderWay(c)' => Carries(c)')
  <2>1. r \in Requests /\ r.p \in Products /\ r.kind \in {"delete", "drop"}
    BY <1>2, ProductsAssumption, RequestShape DEF StartDelete
  <2>2. /\ request'[c] = r /\ at'[c] # "idle" /\ product' = product
        /\ at'[c] # "failed" => Active(product[r.p])
        /\ at'[c] # "failed" /\ r.kind = "drop" => copy'[c] = WithoutSku(product[r.p], r.sku)
    BY <1>2 DEF StartDelete, Begin, Base, CallTypes, docs
  <2>3. Active(product[r.p]) => Good(product[r.p]) /\ Good(WithoutSku(product[r.p], r.sku)) /\ product[r.p] # None
    <3>1. ASSUME Active(product[r.p]) PROVE Good(product[r.p]) /\ product[r.p] # None
      BY <2>1, <3>1 DEF Base, DocTypes, Active
    <3> QED
      BY <3>1, GoodSteps
  <2> QED
    BY <2>1, <2>2, <2>3 DEF Carries, Is, UnderWay
<1>3. ASSUME NEW r \in Menu, StartSale(c, r) \/ StartUpload(c, r) \/ StartAvatar(c, r) \/ StartCategory(c, r)
             \/ StartLabel(c, r) \/ StartSweep(c, r)
      PROVE  (at'[c] = "idle" => copy'[c] = None) /\ (UnderWay(c)' => Carries(c)')
  <2>1. request'[c] = r /\ at'[c] # "idle" /\ copy'[c] = None /\ r.kind \notin {"create", "put", "delete", "drop"}
    BY <1>3 DEF StartSale, StartUpload, StartAvatar, StartCategory, StartLabel, StartSweep, Begin, Base, CallTypes,
       Placed, Copies
  <2> QED
    BY <2>1 DEF Carries, Is, UnderWay
<1>4. CASE CheckSku(c) \/ ResolveImages(c) \/ LastPage(c)
  <2>1. request' = request /\ copy' = copy /\ product' = product /\ UnderWay(c) /\ request[c] # NoRequest
        /\ at'[c] # "idle" /\ (Is(c, {"put"}) => at'[c] # "write") /\ ~ Is(c, {"sale"})
    BY <1>4 DEF CheckSku, ResolveImages, LastPage, Goes, docs, Base, CallTypes, UnderWay, Placed, Stops, Ends, Is
  <2> QED
    BY <2>1 DEF Carries, Is, UnderWay, Base, Copies
<1>5. CASE CheckAttributes(c)
  <2>1. request' = request /\ copy' = copy /\ product' = product /\ UnderWay(c) /\ request[c] # NoRequest
        /\ at'[c] # "idle" /\ (at'[c] # "failed" => Valid(copy[c])) /\ ~ Is(c, {"sale"})
    BY <1>5 DEF CheckAttributes, Goes, docs, Base, CallTypes, UnderWay, Placed, Stops, Ends, Is
  <2> QED
    BY <2>1 DEF Carries, Is, UnderWay, Base, Copies, Valid
<1>6. CASE WriteWhole(c) \/ WriteDeletion(c)
  BY <1>6 DEF WriteWhole, WriteDeletion, Goes, Base, CallTypes, UnderWay
<1>7. CASE LockSale(c) \/ OpenTransaction(c)
  <2>1. request' = request /\ copy' = copy /\ product' = product /\ UnderWay(c) /\ request[c] # NoRequest
        /\ at'[c] # "idle" /\ Is(c, {"sale"}) /\ (at[c] = "run" => at'[c] = "run")
    BY <1>7 DEF LockSale, OpenTransaction, Goes, docs, Base, CallTypes, UnderWay, Placed, Stops, Ends, Is
  <2> QED
    BY <2>1 DEF Carries, Is, UnderWay, Base, Copies
<1>8. CASE ReadStock(c)
  <2>1. request' = request /\ product' = product /\ UnderWay(c) /\ request[c] # NoRequest /\ Is(c, {"sale"})
        /\ request[c].p \in Products
    BY <1>8, RequestShape DEF ReadStock, Leaves, docs, Base, CallTypes, UnderWay, Placed, Stops, Ends, Is
  <2>2. \/ at'[c] = "failed"
        \/ at'[c] = "run" /\ InStock(product[request[c].p], request[c].sku)
           /\ copy'[c] = LessOne(product[request[c].p], request[c].sku)
    BY <1>8 DEF ReadStock, Leaves, Base, CallTypes
  <2>3. InStock(product[request[c].p], request[c].sku) => Good(LessOne(product[request[c].p], request[c].sku))
    <3>1. ASSUME InStock(product[request[c].p], request[c].sku) PROVE Good(product[request[c].p])
      BY <2>1, <3>1 DEF Base, DocTypes, InStock, Active
    <3> QED
      BY <3>1, GoodSteps
  <2> QED
    BY <2>1, <2>2, <2>3 DEF Carries, Is, UnderWay
<1>9. CASE Commit(c) \/ Conflict(c) \/ Fail(c)
  BY <1>9 DEF Commit, Conflict, Fail, Leaves, Base, CallTypes, UnderWay
<1>10. CASE WriteUpload(c) \/ WriteAvatar(c) \/ WriteCategory(c) \/ WriteLabel(c)
  BY <1>10 DEF WriteUpload, WriteAvatar, WriteCategory, WriteLabel, Goes, Base, CallTypes, UnderWay
<1>11. CASE ListPage(c) \/ NextImage(c) \/ AskProducts(c) \/ AskUsers(c) \/ RemoveOrKeep(c)
  <2>1. request' = request /\ copy' = copy /\ product' = product /\ UnderWay(c) /\ request[c] # NoRequest
        /\ at'[c] # "idle" /\ Is(c, {"sweep"})
    BY <1>11 DEF ListPage, NextImage, AskProducts, AskUsers, RemoveOrKeep, Goes, docs, Base, CallTypes, UnderWay,
       Placed, Stops, Ends, Is
  <2> QED
    BY <2>1 DEF Carries, Is, UnderWay, Base, Copies
<1> QED
  BY <1>1, <1>2, <1>3, <1>4, <1>5, <1>6, <1>7, <1>8, <1>9, <1>10, <1>11 DEF Starts, Steps

LEMMA BaseStep ==
  ASSUME Base, NEW c \in Calls, (\E r \in Menu : Starts(c, r)) \/ Steps(c)
  PROVE  Base'
<1>1. DocTypes' /\ CallTypes' /\ SweepTypes' /\ Placed' /\ Locked'
  BY DocTypesStep, CallTypesStep, SweepTypesStep, PlacedStep, LockedStep
<1>2. \A d \in Calls : (at'[d] = "idle" => copy'[d] = None) /\ (UnderWay(d)' => Carries(d)')
  BY OthersCarry, CallerCarries
<1> QED
  BY <1>1, <1>2 DEF Base, Copies

-----------------------------------------------------------------------------
(* The stock: what the shelf counts is what the products and the copies    *)
(* say, until the race.                                                    *)
LEMMA IndexUnique ==
  ASSUME NEW d, Good(d), NEW i \in DOMAIN d.variations
  PROVE  d.variations[i].sku \in SkusOf(d) /\ IndexOf(d, d.variations[i].sku) = i
<1>1. d.variations[i].sku \in SkusOf(d)
  BY DEF SkusOf
<1> QED
  BY <1>1, IndexOfSku DEF Good, DistinctSkus

OnShelf(d, p) == \A i \in DOMAIN d.variations : d.variations[i].stock = shelf[p][d.variations[i].sku]
OneOff(d, p, s) ==
  \A i \in DOMAIN d.variations :
    d.variations[i].stock = shelf[p][d.variations[i].sku] - (IF d.variations[i].sku = s THEN 1 ELSE 0)

Copied(c) ==
  /\ Is(c, {"drop"}) => OnShelf(copy[c], request[c].p)
  /\ Is(c, {"sale"}) /\ copy[c] # None /\ txn[c] # "stale" => OneOff(copy[c], request[c].p, request[c].sku)

LEMMA StockParts ==
  /\ StockBalanced <=> (~ raced => \A p \in Products : product[p] # None => OnShelf(product[p], p))
  /\ StockCopied <=> (~ raced => \A c \in Calls : UnderWay(c) => Copied(c))
  /\ StockBalanced' <=> (~ raced' => \A p \in Products : product'[p] # None => OnShelf(product[p], p)')
  /\ StockCopied' <=> (~ raced' => \A c \in Calls : UnderWay(c)' => Copied(c)')
  BY DEF StockBalanced, StockCopied, OnShelf, OneOff, Copied

(* Copies taken from a product in balance.                                 *)
LEMMA DropOnShelf ==
  ASSUME NEW d, Good(d), NEW p \in Products, OnShelf(d, p), NEW s
  PROVE  OnShelf(WithoutSku(d, s), p)
<1>1. Version(d, WithoutSku(d, s)) /\ Shape(d)
  BY DropShape, DocShape DEF Good
<1>2. \A i \in DOMAIN d.variations : WithoutSku(d, s).variations[i].stock = d.variations[i].stock
  <2> SUFFICES ASSUME NEW i \in DOMAIN d.variations
               PROVE  WithoutSku(d, s).variations[i].stock = d.variations[i].stock
    OBVIOUS
  <2>1. d.variations[i] \in Variations
    BY <1>1 DEF Shape
  <2>2. WithoutSku(d, s).variations[i] =
          IF d.variations[i].sku = s THEN [d.variations[i] EXCEPT !.gone = TRUE] ELSE d.variations[i]
    BY DropShape DEF Good
  <2> QED
    BY <2>1, <2>2 DEF Variations
<1> QED
  BY <1>1, <1>2 DEF OnShelf, Version

LEMMA SaleOneOff ==
  ASSUME NEW d, Good(d), NEW p \in Products, OnShelf(d, p), NEW s, InStock(d, s)
  PROVE  OneOff(LessOne(d, s), p, s)
<1> DEFINE e == LessOne(d, s)
           n == IndexOf(d, s)
<1>1. s \in SkusOf(d) /\ d.variations[n].stock > 0 /\ d \in Docs
  BY DEF InStock, Good
<1>2. Version(d, e) /\ (\A i \in DOMAIN d.variations \ {n} : e.variations[i] = d.variations[i])
      /\ e.variations[n] = [d.variations[n] EXCEPT !.stock = @ - 1]
  BY <1>1, SaleShape
<1>3. n \in DOMAIN d.variations /\ d.variations[n].sku = s /\ Shape(d)
  BY <1>1, IndexOfSku, DocShape
<1>4. \A i \in DOMAIN d.variations : d.variations[i].sku = s => i = n
  BY IndexUnique
<1> HIDE DEF e, n
<1>5. e.variations[n].stock = d.variations[n].stock - 1 /\ e.variations[n].sku = s
  BY <1>2, <1>3 DEF Shape, Variations
<1>6. \A i \in DOMAIN d.variations : d.variations[i].stock = shelf[p][d.variations[i].sku] /\ d.variations[i].stock \in Int
  BY <1>3 DEF OnShelf, Shape
<1>7. \A i \in DOMAIN d.variations :
        e.variations[i].stock = d.variations[i].stock - (IF d.variations[i].sku = s THEN 1 ELSE 0)
  <2> SUFFICES ASSUME NEW i \in DOMAIN d.variations
               PROVE  e.variations[i].stock = d.variations[i].stock - (IF d.variations[i].sku = s THEN 1 ELSE 0)
    OBVIOUS
  <2>1. CASE i = n
    BY <1>3, <1>5, <2>1
  <2>2. CASE i # n
    <3>1. e.variations[i] = d.variations[i] /\ d.variations[i].sku # s /\ d.variations[i].stock \in Int
      BY <1>2, <1>4, <1>6, <2>2
    <3> QED
      BY <3>1
  <2> QED
    BY <2>1, <2>2
<1>8. OneOff(e, p, s)
  BY <1>2, <1>6, <1>7 DEF OneOff, Version
<1> QED
  BY <1>8 DEF e

(* What the step of a call makes of a copy that another call holds.        *)
LEMMA StockOthers ==
  ASSUME Base, StockCopied, NEW c \in Calls, WriteWhole(c) \/ WriteDeletion(c) \/ Commit(c), ~ raced',
         NEW d \in Calls \ {c}, UnderWay(d)'
  PROVE  Copied(d)'
<1>1. /\ UnderWay(d) /\ request'[d] = request[d] /\ copy'[d] = copy[d] /\ at'[d] = at[d]
      /\ txn'[d] = txn[d] \/ txn'[d] = "stale"
  BY OthersStay DEF Others, UnderWay, Steps
<1>2. Carries(d) /\ request[d] # NoRequest
  BY <1>1 DEF Base, Copies, Placed, UnderWay
<1>3. ~ raced
  BY DEF WriteWhole, WriteDeletion, Commit, Counts, stockHistory
<1>4. Copied(d)
  BY <1>1, <1>3, StockParts
<1>5. request[c].p \in Products /\ shelf \in [Products -> [Skus -> Int]]
      /\ (request[d].kind \in {"drop", "sale"} => request[d].p \in Products)
  BY <1>2, GoodWrite, RequestShape DEF Base, DocTypes, CallTypes
<1>6. ASSUME Is(d, {"drop", "sale"}), request[d].p # request[c].p
      PROVE  shelf'[request[d].p] = shelf[request[d].p]
  <2>1. CASE WriteWhole(c)
    BY <1>5, <1>6, <2>1 DEF WriteWhole, Counts, Is
  <2>2. CASE WriteDeletion(c)
    BY <2>2 DEF WriteDeletion, stockHistory
  <2>3. CASE Commit(c)
    BY <1>5, <1>6, <2>3 DEF Commit, Is
  <2> QED
    BY <2>1, <2>2, <2>3
<1>7. CASE request[d].p # request[c].p \/ shelf' = shelf
  BY <1>1, <1>4, <1>6, <1>7 DEF Copied, OnShelf, OneOff, Is
<1>8. CASE request[d].p = request[c].p /\ ~ WriteDeletion(c)
  <2>1. ~ Disturbs(c, request[c].p)
    BY <1>8 DEF WriteWhole, Commit, Counts
  <2>2. ~ Is(d, {"drop"})
    <3>1. ASSUME Is(d, {"drop"}) PROVE FALSE
      <4>1. at[d] = "write" /\ copy[d] # None
        BY <1>1, <1>2, <3>1, ProductsAssumption DEF Carries, Is, Good, Base, Placed, Stops, UnderWay, Ends
      <4> QED
        BY <1>8, <2>1, <3>1, <4>1 DEF Disturbs, Is
    <3> QED
      BY <3>1
  <2>3. Is(d, {"sale"}) /\ copy[d] # None => at[d] = "run" /\ txn[d] # "none"
    BY <1>2, <1>8, <2>1 DEF Carries, Disturbs, Is
  <2>4. CASE Commit(c)
    BY <1>1, <1>8, <2>2, <2>3, <2>4 DEF Base, Locked, Commit, Copied, Is
  <2>5. CASE WriteWhole(c)
    <3>1. txn' = Outdated(c, request[c].p) /\ txn[d] \in {"none", "clean", "stale"}
      BY <2>5 DEF WriteWhole, Base, CallTypes
    <3>2. Is(d, {"sale"}) /\ copy[d] # None => txn'[d] = "stale"
      BY <1>8, <2>3, <3>1 DEF Outdated, Is
    <3> QED
      BY <1>1, <2>2, <3>2 DEF Copied, Is
  <2> QED
    BY <1>8, <2>4, <2>5
<1> QED
  BY <1>7, <1>8 DEF WriteDeletion, stockHistory

LEMMA StockWritten ==
  ASSUME Base, StockBalanced, StockCopied, NEW c \in Calls,
         WriteWhole(c) \/ WriteDeletion(c) \/ Commit(c), ~ raced',
         NEW p \in Products, product'[p] # None
  PROVE  OnShelf(product[p], p)'
<1>1. ~ raced
  BY DEF WriteWhole, WriteDeletion, Commit, Counts, stockHistory
<1>2. /\ request[c].p \in Products /\ Good(product'[request[c].p])
      /\ product' = [product EXCEPT ![request[c].p] = product'[request[c].p]]
      /\ product \in [Products -> Docs \cup {None}] /\ shelf \in [Products -> [Skus -> Int]]
  BY GoodWrite DEF Base, DocTypes
<1>3. UnderWay(c) /\ request[c] # NoRequest /\ Copied(c) /\ Carries(c)
  <2>1. UnderWay(c) /\ request[c] # NoRequest
    BY DEF WriteWhole, WriteDeletion, Commit, Goes, UnderWay, Base, Placed, Ends
  <2> QED
    BY <1>1, <2>1, StockParts DEF Base, Copies
<1>4. CASE p # request[c].p
  <2>1. product'[p] = product[p]
    BY <1>2, <1>4
  <2>2. shelf'[p] = shelf[p]
    <3>1. CASE WriteWhole(c)
      BY <1>2, <1>4, <3>1 DEF WriteWhole, Counts
    <3>2. CASE WriteDeletion(c)
      BY <3>2 DEF WriteDeletion, stockHistory
    <3>3. CASE Commit(c)
      BY <1>2, <1>4, <3>3 DEF Commit
    <3> QED
      BY <3>1, <3>2, <3>3
  <2>3. OnShelf(product[p], p)
    BY <1>1, <2>1, StockParts
  <2> QED
    BY <2>1, <2>2, <2>3 DEF OnShelf
<1>5. CASE p = request[c].p /\ WriteWhole(c)
  <2> DEFINE d == copy[c]
             f == [s \in Skus |-> IF s \in SkusOf(d) THEN d.variations[IndexOf(d, s)].stock ELSE 0]
  <2>1. product'[p] = d /\ Good(d)
    BY <1>2, <1>5, GoodWrite
  <2>2. shelf' = [shelf EXCEPT ![p] = f]
    BY <1>5 DEF WriteWhole, Counts
  <2>3. \A i \in DOMAIN d.variations : f[d.variations[i].sku] = d.variations[i].stock
    <3>1. \A i \in DOMAIN d.variations : d.variations[i].sku \in Skus
      BY <2>1, DocShape DEF Good, Shape
    <3>2. \A i \in DOMAIN d.variations : d.variations[i].sku \in SkusOf(d) /\ IndexOf(d, d.variations[i].sku) = i
      BY <2>1, IndexUnique
    <3> QED
      BY <3>1, <3>2
  <2> HIDE DEF f
  <2>4. shelf'[p] = f
    BY <1>2, <2>2
  <2> QED
    BY <2>1, <2>3, <2>4 DEF OnShelf
<1>6. CASE p = request[c].p /\ Commit(c)
  <2> DEFINE s == request[c].sku
  <2>1. product'[p] = copy[c] /\ Good(copy[c]) /\ copy[c] # None /\ txn[c] # "stale"
    BY <1>2, <1>6, GoodWrite DEF Commit
  <2>2. Is(c, {"sale"}) /\ s \in Skus
    BY <1>3, <1>6, RequestShape DEF Commit, Base, Placed, Stops, Ends, Is, CallTypes
  <2>3. OneOff(copy[c], p, s)
    BY <1>3, <1>6, <2>1, <2>2 DEF Copied
  <2>4. shelf' = [shelf EXCEPT ![p][s] = shelf[p][s] - 1]
    BY <1>6 DEF Commit
  <2>5. \A i \in DOMAIN copy[c].variations : copy[c].variations[i].sku \in Skus
    BY <2>1, DocShape DEF Good, Shape
  <2>6. \A t \in Skus : shelf'[p][t] = shelf[p][t] - (IF t = s THEN 1 ELSE 0)
    <3>1. shelf'[p] = [shelf[p] EXCEPT ![s] = shelf[p][s] - 1]
      BY <1>2, <2>4
    <3> QED
      BY <1>2, <2>2, <3>1
  <2> QED
    BY <2>1, <2>3, <2>5, <2>6 DEF OnShelf, OneOff
<1>7. CASE p = request[c].p /\ WriteDeletion(c)
  <2>1. shelf' = shelf
    BY <1>7 DEF WriteDeletion, stockHistory
  <2>2. CASE Is(c, {"drop"})
    <3>1. product'[p] = copy[c]
      BY <1>2, <1>7, <2>2 DEF WriteDeletion, Store, Is
    <3> QED
      BY <1>3, <1>7, <2>1, <2>2, <3>1 DEF Copied, OnShelf
  <2>3. CASE Is(c, {"delete"})
    <3>1. product'[p] = [product[p] EXCEPT !.live = FALSE] /\ product[p] # None
      BY <1>2, <1>3, <1>7, <2>3 DEF WriteDeletion, Store, Is, Carries
    <3>2. product'[p].variations = product[p].variations
      BY <1>2, <3>1 DEF Docs
    <3>3. OnShelf(product[p], p)
      BY <1>1, <3>1, StockParts
    <3> QED
      BY <2>1, <3>2, <3>3 DEF OnShelf
  <2> QED
    BY <1>7, <2>2, <2>3 DEF WriteDeletion, Is
<1> QED
  BY <1>4, <1>5, <1>6, <1>7

(* A step that leaves the products alone.                                  *)
LEMMA StockCaller ==
  ASSUME Base, StockBalanced, StockCopied, NEW c \in Calls, (\E r \in Menu : Starts(c, r)) \/ Steps(c), ~ raced,
         UnderWay(c)', UNCHANGED <<product, shelf, raced>>
  PROVE  Copied(c)'
<1>1. ASSUME NEW r \in Menu, StartDelete(c, r)
      PROVE  Copied(c)'
  <2>1. r \in Requests /\ r.p \in Products /\ r.kind \in {"delete", "drop"}
    BY <1>1, ProductsAssumption, RequestShape DEF StartDelete
  <2>2. /\ request'[c] = r /\ UNCHANGED <<product, shelf>>
        /\ at'[c] # "failed" => Active(product[r.p])
        /\ at'[c] # "failed" /\ r.kind = "drop" => copy'[c] = WithoutSku(product[r.p], r.sku)
    BY <1>1 DEF StartDelete, Begin, Base, CallTypes, docs, stockHistory
  <2>3. Active(product[r.p]) => OnShelf(WithoutSku(product[r.p], r.sku), r.p)
    <3>1. ASSUME Active(product[r.p]) PROVE Good(product[r.p]) /\ OnShelf(product[r.p], r.p)
      BY <2>1, <3>1, StockParts DEF Base, DocTypes, Active
    <3> QED
      BY <2>1, <3>1, DropOnShelf
  <2> QED
    BY <2>1, <2>2, <2>3 DEF Copied, Is, UnderWay, OnShelf
<1>2. ASSUME NEW r \in Menu, StartCreate(c, r) \/ StartPut(c, r) \/ StartSale(c, r) \/ StartUpload(c, r)
             \/ StartAvatar(c, r) \/ StartCategory(c, r) \/ StartLabel(c, r) \/ StartSweep(c, r)
      PROVE  Copied(c)'
  <2>1. request'[c] = r /\ r.kind # "drop" /\ (r.kind = "sale" => copy'[c] = None)
    BY <1>2 DEF StartCreate, StartPut, StartSale, StartUpload, StartAvatar, StartCategory, StartLabel, StartSweep,
             Begin, Base, CallTypes, Placed, Copies
  <2> QED
    BY <2>1 DEF Copied, Is
<1>3. CASE CheckSku(c) \/ ResolveImages(c) \/ CheckAttributes(c) \/ LastPage(c) \/ WriteUpload(c)
           \/ WriteAvatar(c) \/ WriteCategory(c) \/ WriteLabel(c)
  <2>1. UNCHANGED <<request, copy, shelf, txn>> /\ UnderWay(c)
    BY <1>3 DEF CheckSku, ResolveImages, CheckAttributes, LastPage, WriteUpload, WriteAvatar, WriteCategory,
       WriteLabel,
             Goes, progress, UnderWay, stockHistory
  <2> QED
    BY <2>1, StockParts DEF Copied, Is, OnShelf, OneOff
<1>4. CASE ListPage(c) \/ NextImage(c) \/ AskProducts(c) \/ AskUsers(c) \/ RemoveOrKeep(c)
  <2>1. UNCHANGED <<request, copy, shelf, txn>> /\ UnderWay(c)
    BY <1>4 DEF ListPage, NextImage, AskProducts, AskUsers, RemoveOrKeep, Goes, UnderWay, stockHistory
  <2> QED
    BY <2>1, StockParts DEF Copied, Is, OnShelf, OneOff
<1>5. CASE LockSale(c) \/ OpenTransaction(c)
  <2>1. UNCHANGED <<request, copy, shelf>> /\ UnderWay(c) /\ (txn[c] = txn'[c] \/ txn[c] = "none")
    BY <1>5 DEF LockSale, OpenTransaction, Goes, UnderWay, stockHistory
  <2> QED
    BY <2>1, StockParts DEF Copied, Is, OnShelf, OneOff
<1>6. CASE ReadStock(c)
  <2>1. request' = request /\ shelf' = shelf /\ Is(c, {"sale"}) /\ request[c].p \in Products
    BY <1>6, RequestShape DEF ReadStock, Leaves, docs, stockHistory, Base, CallTypes, UnderWay, Placed, Stops, Ends,
       Is
  <2>2. \/ at'[c] = "failed"
        \/ InStock(product[request[c].p], request[c].sku)
           /\ copy'[c] = LessOne(product[request[c].p], request[c].sku)
    BY <1>6 DEF ReadStock, Leaves, Base, CallTypes
  <2>3. InStock(product[request[c].p], request[c].sku) =>
          OneOff(LessOne(product[request[c].p], request[c].sku), request[c].p, request[c].sku)
    <3>1. ASSUME InStock(product[request[c].p], request[c].sku)
          PROVE  Good(product[request[c].p]) /\ OnShelf(product[request[c].p], request[c].p)
      BY <2>1, <3>1, StockParts DEF Base, DocTypes, InStock, Active
    <3> QED
      BY <2>1, <3>1, SaleOneOff
  <2> QED
    BY <2>1, <2>2, <2>3 DEF Copied, Is, UnderWay, OneOff
<1>7. CASE WriteWhole(c) \/ WriteDeletion(c) \/ Commit(c) \/ Conflict(c) \/ Fail(c)
  BY <1>7 DEF WriteWhole, WriteDeletion, Commit, Conflict, Fail, Goes, Leaves, Base, CallTypes, UnderWay
<1> QED
  BY <1>1, <1>2, <1>3, <1>4, <1>5, <1>6, <1>7 DEF Starts, Steps

LEMMA StockStep ==
  ASSUME Base, StockBalanced, StockCopied, NEW c \in Calls, (\E r \in Menu : Starts(c, r)) \/ Steps(c)
  PROVE  StockBalanced' /\ StockCopied'
<1>1. CASE WriteWhole(c) \/ WriteDeletion(c) \/ Commit(c)
  <2>1. ~ UnderWay(c)'
    BY <1>1 DEF WriteWhole, WriteDeletion, Commit, Goes, Leaves, Base, CallTypes, UnderWay
  <2> QED
    BY <1>1, <2>1, StockOthers, StockWritten, StockParts
<1>2. CASE UNCHANGED <<product, shelf, raced>>
  <2>1. StockBalanced'
    BY <1>2 DEF StockBalanced
  <2>2. ASSUME ~ raced', NEW d \in Calls \ {c}, UnderWay(d)' PROVE Copied(d)'
    <3>1. /\ UnderWay(d) /\ request'[d] = request[d] /\ copy'[d] = copy[d]
          /\ txn'[d] = txn[d] \/ txn'[d] = "stale"
      BY <2>2, OthersStay DEF Others, UnderWay
    <3>2. Copied(d)
      BY <1>2, <2>2, <3>1, StockParts
    <3> QED
      BY <1>2, <3>1, <3>2 DEF Copied, Is, OnShelf, OneOff
  <2>3. ~ raced' /\ UnderWay(c)' => Copied(c)'
    BY <1>2, StockCaller
  <2> QED
    BY <2>1, <2>2, <2>3, StockParts
<1> QED
  BY <1>1, <1>2, OnlyWrites

-----------------------------------------------------------------------------
(* The images and their uses.                                              *)
LEMMA UsesAre ==
  /\ \A u \in Uses : \E i \in Images, h \in Products \cup {UsersHold} : u = <<i, h>>
  /\ \A i, p : p \in Products =>
       (<<i, p>> \in Uses <=> i \in Images /\ product[p] # None /\ i \in product[p].images)
  /\ \A i : <<i, UsersHold>> \in Uses <=> i \in Images /\ avatar = i
<1>1. \A u \in Uses : \E i \in Images, h \in Products \cup {UsersHold} : u = <<i, h>>
  BY DEF Uses
<1>2. ASSUME NEW i, NEW p \in Products
      PROVE  <<i, p>> \in Uses <=> i \in Images /\ product[p] # None /\ i \in product[p].images
  BY ProductsAssumption DEF Uses, UsersHold
<1>3. ASSUME NEW i
      PROVE  <<i, UsersHold>> \in Uses <=> i \in Images /\ avatar = i
  BY ProductsAssumption DEF Uses, UsersHold
<1> QED
  BY <1>1, <1>2, <1>3

LEMMA UsesWillBe ==
  /\ \A u \in Uses' : \E i \in Images, h \in Products \cup {UsersHold} : u = <<i, h>>
  /\ \A i, p : p \in Products =>
       (<<i, p>> \in Uses' <=> i \in Images /\ product'[p] # None /\ i \in product'[p].images)
  /\ \A i : <<i, UsersHold>> \in Uses' <=> i \in Images /\ avatar' = i
<1>1. \A u \in Uses' : \E i \in Images, h \in Products \cup {UsersHold} : u = <<i, h>>
  BY DEF Uses
<1>2. ASSUME NEW i, NEW p \in Products
      PROVE  <<i, p>> \in Uses' <=> i \in Images /\ product'[p] # None /\ i \in product'[p].images
  BY ProductsAssumption DEF Uses, UsersHold
<1>3. ASSUME NEW i
      PROVE  <<i, UsersHold>> \in Uses' <=> i \in Images /\ avatar' = i
  BY ProductsAssumption DEF Uses, UsersHold
<1> QED
  BY <1>1, <1>2, <1>3

LEMMA MixedStep ==
  ASSUME Remember
  PROVE  Mixed' /\ (mixed => mixed')
  BY DEF Remember, Mixed, Sweeps, UnderWay, Is

(* Which steps change what the images are and what uses them; all of them  *)
(* are steps of a call that is under way.                                  *)
Kept == UNCHANGED <<product, avatar, library>>

LEMMA ImageSteps ==
  ASSUME Base, NEW c \in Calls, (\E r \in Menu : Starts(c, r)) \/ Steps(c)
  PROVE  /\ unanswered => unanswered'
         /\ \/ Kept
            \/ UnderWay(c) /\ (WriteWhole(c) \/ WriteDeletion(c) \/ Commit(c)) /\ UNCHANGED <<avatar, library, sweep>>
            \/ UnderWay(c) /\ WriteUpload(c) /\ UNCHANGED <<product, avatar, sweep>>
            \/ UnderWay(c) /\ WriteAvatar(c) /\ UNCHANGED <<product, library, sweep>>
            \/ UnderWay(c) /\ RemoveOrKeep(c) /\ UNCHANGED <<product, avatar>>
<1>1. ASSUME NEW r \in Menu, StartCreate(c, r) \/ StartPut(c, r) \/ StartDelete(c, r) \/ StartSale(c, r)
             \/ StartUpload(c, r) \/ StartAvatar(c, r) \/ StartCategory(c, r) \/ StartLabel(c, r) \/ StartSweep(c, r)
      PROVE  /\ unanswered => unanswered'
         /\ \/ Kept
            \/ UnderWay(c) /\ (WriteWhole(c) \/ WriteDeletion(c) \/ Commit(c)) /\ UNCHANGED <<avatar, library, sweep>>
            \/ UnderWay(c) /\ WriteUpload(c) /\ UNCHANGED <<product, avatar, sweep>>
            \/ UnderWay(c) /\ WriteAvatar(c) /\ UNCHANGED <<product, library, sweep>>
            \/ UnderWay(c) /\ RemoveOrKeep(c) /\ UNCHANGED <<product, avatar>>
  BY <1>1 DEF StartCreate, StartPut, StartDelete, StartSale, StartUpload, StartAvatar, StartCategory, StartLabel,
     StartSweep, docs, progress, stockHistory, Kept, UnderWay, Goes
<1>2. CASE CheckSku(c) \/ ResolveImages(c) \/ CheckAttributes(c) \/ LastPage(c)
  BY <1>2 DEF CheckSku, ResolveImages, CheckAttributes, LastPage, docs, progress, stockHistory, Kept, UnderWay, Goes
<1>3. CASE LockSale(c) \/ OpenTransaction(c) \/ ReadStock(c) \/ Conflict(c) \/ Fail(c)
  BY <1>3 DEF LockSale, OpenTransaction, ReadStock, Conflict, Fail, docs, progress, stockHistory, Kept, UnderWay, Goes
<1>4. CASE WriteCategory(c) \/ WriteLabel(c)
  BY <1>4 DEF WriteCategory, WriteLabel, docs, progress, stockHistory, Kept, UnderWay, Goes
<1>5. CASE ListPage(c)
  BY <1>5 DEF ListPage, docs, progress, stockHistory, Kept, UnderWay, Goes
<1>6. CASE AskProducts(c)
  <2>1. Kept
    BY <1>6 DEF AskProducts, docs, Kept
  <2>2. unanswered => unanswered'
    BY <1>6, Zenon DEF AskProducts
  <2> QED
    BY <2>1, <2>2
<1>7. CASE AskUsers(c)
  BY <1>7 DEF AskUsers, docs, progress, stockHistory, Kept, UnderWay, Goes
<1>8. CASE NextImage(c)
  BY <1>8 DEF NextImage, docs, progress, stockHistory, Kept, UnderWay, Goes
<1>9. CASE WriteWhole(c) \/ WriteDeletion(c) \/ Commit(c)
  BY <1>9 DEF WriteWhole, WriteDeletion, Commit, docs, progress, stockHistory, Kept, UnderWay, Goes
<1>10. CASE WriteUpload(c)
  BY <1>10 DEF WriteUpload, docs, progress, stockHistory, Kept, UnderWay, Goes
<1>11. CASE WriteAvatar(c)
  BY <1>11 DEF WriteAvatar, docs, progress, stockHistory, Kept, UnderWay, Goes
<1>12. CASE RemoveOrKeep(c)
  BY <1>12 DEF RemoveOrKeep, docs, progress, stockHistory, Kept, UnderWay, Goes
<1> QED
  BY <1>1, <1>2, <1>3, <1>4, <1>5, <1>6, <1>7, <1>8, <1>9, <1>10, <1>11, <1>12 DEF Starts, Steps

ResolvedFor(c) ==
  /\ Is(c, {"create", "put"}) /\ at[c] \in {"category", "write"} => copy[c].images \subseteq library
  /\ Is(c, {"drop"}) => copy[c].images \subseteq library
  /\ Is(c, {"sale"}) /\ copy[c] # None => copy[c].images \subseteq library
  /\ Is(c, {"avatar"}) => request[c].image \in library
  /\ Is(c, {"sweep"}) => /\ sweep[c].shop = "no" => \A p \in Products : ~ UsedBy(sweep[c].image, p)
                         /\ sweep[c].users = "no" => ~ UsedBy(sweep[c].image, UsersHold)

LEMMA ResolvedParts ==
  /\ Resolved <=> (~ mixed /\ ~ unanswered => \A c \in Calls : UnderWay(c) => ResolvedFor(c))
  /\ Resolved' <=> (~ mixed' /\ ~ unanswered' => \A c \in Calls : UnderWay(c)' => ResolvedFor(c)')
  BY DEF Resolved, ResolvedFor

(* The uses there are after a write.                                       *)
LEMMA ImagesThereStep ==
  ASSUME Base, ImagesThere, Resolved, NEW c \in Calls, (\E r \in Menu : Starts(c, r)) \/ Steps(c), mixed => mixed'
  PROVE  ImagesThere'
<1> SUFFICES ASSUME ~ mixed', ~ unanswered', NEW u \in Uses' PROVE u[1] \in library'
  BY DEF ImagesThere
<1>1. ~ mixed /\ ~ unanswered
  BY ImageSteps
<1>2. PICK i \in Images, h \in Products \cup {UsersHold} : u = <<i, h>>
  BY UsesWillBe
<1>3. \A v \in Uses : v[1] \in library
  BY <1>1 DEF ImagesThere
<1>4. CASE Kept
  <2>1. Uses' = Uses
    BY <1>4 DEF Uses, Kept
  <2> QED
    BY <1>3, <1>4, <2>1 DEF Kept
<1>5. CASE u \in Uses /\ library \subseteq library'
  BY <1>3, <1>5
<1>6. CASE UnderWay(c) /\ (WriteWhole(c) \/ WriteDeletion(c) \/ Commit(c)) /\ UNCHANGED <<avatar, library, sweep>>
  <2>1. request[c].p \in Products /\ product' = [product EXCEPT ![request[c].p] = product'[request[c].p]]
        /\ product \in [Products -> Docs \cup {None}]
    BY <1>6, GoodWrite DEF Base, DocTypes
  <2>2. CASE h # request[c].p
    <3>1. u \in Uses
      BY <1>2, <1>6, <2>1, <2>2, UsesAre, UsesWillBe
    <3> QED
      BY <1>5, <1>6, <3>1
  <2>3. CASE h = request[c].p
    <3>1. i \in product'[h].images
      BY <1>2, <2>1, <2>3, UsesWillBe
    <3>2. ResolvedFor(c) /\ Carries(c) /\ request[c] # NoRequest
      BY <1>1, <1>6, ResolvedParts DEF Base, Copies, Placed, UnderWay
    <3>3. CASE WriteDeletion(c) /\ Is(c, {"delete"})
      <4>1. product'[h] = [product[h] EXCEPT !.live = FALSE] /\ product[h] # None /\ product[h] \in Docs
        BY <2>1, <2>3, <3>2, <3>3 DEF WriteDeletion, Store, Is, Carries
      <4>2. product'[h].images = product[h].images
        BY <4>1 DEF Docs
      <4>3. u \in Uses
        BY <1>2, <2>1, <2>3, <3>1, <4>1, <4>2, UsesAre
      <4> QED
        BY <1>5, <1>6, <4>3
    <3>4. CASE ~ (WriteDeletion(c) /\ Is(c, {"delete"}))
      <4>1. product'[h] = copy[c]
        <5>1. CASE WriteDeletion(c)
          BY <2>1, <2>3, <3>4, <5>1 DEF WriteDeletion, Store, Is
        <5> QED
          BY <1>6, <2>3, <5>1, GoodWrite
      <4>2. copy[c].images \subseteq library
        <5>1. CASE WriteWhole(c)
          BY <3>2, <5>1 DEF WriteWhole, Goes, ResolvedFor
        <5>2. CASE WriteDeletion(c)
          BY <3>2, <3>4, <5>2 DEF WriteDeletion, ResolvedFor, Is
        <5>3. CASE Commit(c)
          BY <3>2, <5>3 DEF Commit, ResolvedFor, Base, Placed, Stops, Ends, Is
        <5> QED
          BY <1>6, <5>1, <5>2, <5>3
      <4> QED
        BY <1>2, <1>6, <3>1, <4>1, <4>2
    <3> QED
      BY <3>3, <3>4
  <2> QED
    BY <2>2, <2>3
<1>7. CASE UnderWay(c) /\ WriteUpload(c) /\ UNCHANGED <<product, avatar, sweep>>
  BY <1>5, <1>7 DEF WriteUpload, Uses
<1>8. CASE UnderWay(c) /\ WriteAvatar(c) /\ UNCHANGED <<product, library, sweep>>
  <2>1. request[c].image \in library /\ avatar' = request[c].image
    BY <1>1, <1>8, ResolvedParts DEF WriteAvatar, ResolvedFor
  <2>2. CASE h = UsersHold
    BY <1>2, <1>8, <2>1, <2>2, UsesWillBe
  <2>3. CASE h \in Products
    <3>1. u \in Uses
      BY <1>2, <1>8, <2>3, UsesAre, UsesWillBe
    <3> QED
      BY <1>5, <1>8, <3>1
  <2> QED
    BY <2>2, <2>3
<1>9. CASE UnderWay(c) /\ RemoveOrKeep(c) /\ UNCHANGED <<product, avatar>>
  <2>1. u \in Uses
    BY <1>9 DEF Uses
  <2>2. Is(c, {"sweep"})
    BY <1>9 DEF RemoveOrKeep, Base, Placed, Stops, Ends, Is
  <2>3. Unused(c) => sweep[c].shop = "no" /\ sweep[c].users = "no"
    BY DEF Unused
  <2>4. Unused(c) => ~ UsedBy(sweep[c].image, h)
    BY <1>1, <1>9, <2>2, <2>3, ResolvedParts DEF ResolvedFor
  <2> QED
    BY <1>2, <1>3, <1>9, <2>1, <2>4 DEF RemoveOrKeep, UsedBy
<1> QED
  BY <1>4, <1>6, <1>7, <1>8, <1>9, ImageSteps

LEMMA ResolvedOthers ==
  ASSUME Base, Mixed, Mixed', Resolved, NEW c \in Calls, (\E r \in Menu : Starts(c, r)) \/ Steps(c), mixed => mixed',
         ~ mixed', ~ unanswered', NEW d \in Calls \ {c}, UnderWay(d)'
  PROVE  ResolvedFor(d)'
<1>1. ~ mixed /\ ~ unanswered
  BY ImageSteps
<1>2. /\ UnderWay(d) /\ at'[d] = at[d] /\ request'[d] = request[d] /\ copy'[d] = copy[d] /\ sweep'[d] = sweep[d]
  BY OthersStay DEF Others, UnderWay
<1>3. ResolvedFor(d)
  BY <1>1, <1>2, ResolvedParts
<1>4. CASE Kept
  <2>1. Uses' = Uses
    BY <1>4 DEF Uses, Kept
  <2> QED
    BY <1>2, <1>3, <1>4, <2>1 DEF ResolvedFor, Is, Kept, UsedBy
<1>5. CASE ~ Is(d, {"sweep"}) /\ library \subseteq library'
  BY <1>2, <1>3, <1>5 DEF ResolvedFor, Is
<1>6. CASE UnderWay(c) /\ RemoveOrKeep(c)
  <2>1. Is(c, {"sweep"}) /\ request' = request /\ at' = at
    BY <1>6 DEF RemoveOrKeep, Base, Placed, Stops, Ends, Is
  <2>2. Sweeps(c)' /\ UnderWay(d)'
    BY <1>6, <2>1 DEF Sweeps, Is, UnderWay
  <2> QED
    BY <2>2 DEF Mixed
<1>7. CASE UnderWay(c) /\ library \subseteq library'
  <2>1. ~ Is(d, {"sweep"})
    BY <1>1, <1>2, <1>7 DEF Mixed, Sweeps
  <2> QED
    BY <1>5, <1>7, <2>1
<1> QED
  BY <1>4, <1>6, <1>7, ImageSteps DEF WriteUpload

LEMMA ResolvedCaller ==
  ASSUME Base, ImagesThere, Resolved, NEW c \in Calls, (\E r \in Menu : Starts(c, r)) \/ Steps(c), mixed => mixed',
         ~ mixed', ~ unanswered', UnderWay(c)'
  PROVE  ResolvedFor(c)'
<1>0. ~ mixed /\ ~ unanswered /\ (UnderWay(c) => ResolvedFor(c))
  BY ImageSteps, ResolvedParts
<1>1. ASSUME NEW r \in Menu, StartDelete(c, r)
      PROVE  ResolvedFor(c)'
  <2>1. r \in Requests /\ r.p \in Products /\ r.kind \in {"delete", "drop"}
    BY <1>1, ProductsAssumption, RequestShape DEF StartDelete
  <2>2. /\ request'[c] = r /\ UNCHANGED library
        /\ Active(product[r.p])
        /\ r.kind = "drop" => copy'[c] = WithoutSku(product[r.p], r.sku)
    BY <1>1 DEF StartDelete, Begin, Base, CallTypes, docs, UnderWay
  <2>3. Good(product[r.p]) /\ product[r.p] # None
    BY <2>1, <2>2 DEF Base, DocTypes, Active
  <2>4. WithoutSku(product[r.p], r.sku).images = product[r.p].images /\ product[r.p].images \subseteq Images
    BY <2>3, DropShape, DocShape DEF Good, Version, Shape
  <2>5. \A i \in product[r.p].images : <<i, r.p>> \in Uses
    BY <2>1, <2>3, <2>4, UsesAre
  <2>6. product[r.p].images \subseteq library
    BY <1>0, <2>5 DEF ImagesThere
  <2> QED
    BY <2>1, <2>2, <2>4, <2>6 DEF ResolvedFor, Is
<1>2. ASSUME NEW r \in Menu, StartCreate(c, r) \/ StartPut(c, r) \/ StartSale(c, r) \/ StartUpload(c, r)
             \/ StartAvatar(c, r) \/ StartCategory(c, r) \/ StartLabel(c, r)
      PROVE  ResolvedFor(c)'
  <2>1. request'[c] = r /\ r.kind \notin {"drop", "sweep"} /\ (r.kind = "sale" => copy'[c] = None)
        /\ (r.kind = "avatar" => r.image \in library') 
        /\ (at'[c] \notin {"category", "write"} \/ r.kind \notin {"create", "put"})
    BY <1>2 DEF StartCreate, StartPut, StartSale, StartUpload, StartAvatar, StartCategory, StartLabel,
             Begin, Base, CallTypes, Placed, Copies, UnderWay, docs
  <2> QED
    BY <2>1 DEF ResolvedFor, Is
<1>3. ASSUME NEW r \in Menu, StartSweep(c, r)
      PROVE  ResolvedFor(c)'
  <2>1. request'[c] = r /\ r.kind = "sweep" /\ sweep'[c] = NoSweep
    BY <1>3 DEF StartSweep, Begin, Base, CallTypes, SweepTypes, Placed, progress
  <2> QED
    BY <2>1 DEF ResolvedFor, Is, NoSweep
<1>4. CASE CheckSku(c)
  <2>1. UNCHANGED <<request, copy, library>> /\ Is(c, {"create"}) /\ at'[c] \notin {"category", "write"}
    BY <1>4 DEF CheckSku, Goes, docs, Base, CallTypes, Placed, Stops, Ends, Is
  <2> QED
    BY <2>1 DEF ResolvedFor, Is
<1>5. CASE ResolveImages(c)
  <2>1. UNCHANGED <<request, copy, library>> /\ Is(c, {"create", "put"}) /\ copy[c].images \subseteq library
    BY <1>5 DEF ResolveImages, Goes, docs, Base, CallTypes, Placed, Stops, Ends, Is, UnderWay
  <2> QED
    BY <2>1 DEF ResolvedFor, Is
<1>6. CASE CheckAttributes(c)
  <2>1. UNCHANGED <<request, copy, library>> /\ Is(c, {"put"}) /\ at[c] = "category"
    BY <1>6 DEF CheckAttributes, Goes, docs, Base, CallTypes, Placed, Stops, Ends, Is
  <2> QED
    BY <1>0, <2>1 DEF ResolvedFor, Is, UnderWay
<1>7. CASE LockSale(c) \/ OpenTransaction(c)
  <2>1. UNCHANGED <<request, copy, library>> /\ Is(c, {"sale"}) /\ UnderWay(c)
    BY <1>7 DEF LockSale, OpenTransaction, Goes, docs, Base, CallTypes, Placed, Stops, Ends, Is, UnderWay
  <2> QED
    BY <1>0, <2>1 DEF ResolvedFor, Is
<1>8. CASE ReadStock(c)
  <2>1. request' = request /\ library' = library /\ Is(c, {"sale"}) /\ request[c].p \in Products
    BY <1>8, RequestShape DEF ReadStock, Leaves, docs, Base, CallTypes, UnderWay, Placed, Stops, Ends, Is
  <2>2. InStock(product[request[c].p], request[c].sku)
           /\ copy'[c] = LessOne(product[request[c].p], request[c].sku)
    BY <1>8 DEF ReadStock, Leaves, Base, CallTypes, UnderWay
  <2> DEFINE d == product[request[c].p]
  <2>3. Good(d) /\ d # None
    BY <2>1, <2>2 DEF Base, DocTypes, Active, InStock
  <2>4. LessOne(d, request[c].sku).images = d.images /\ d.images \subseteq Images
    BY <2>2, <2>3, SaleShape, DocShape DEF Good, Version, Shape, InStock
  <2>5. \A i \in d.images : <<i, request[c].p>> \in Uses
    BY <2>1, <2>3, <2>4, UsesAre
  <2>6. d.images \subseteq library
    BY <1>0, <2>5 DEF ImagesThere
  <2> QED
    BY <2>1, <2>2, <2>4, <2>6 DEF ResolvedFor, Is
<1>9. CASE ListPage(c)
  <2>1. PICK page \in SUBSET library :
          Moves(c, sweep[c].listed \cup page, page, sweep[c].image, sweep[c].shop, sweep[c].users)
    BY <1>9, ListPageMoves
  <2>2. Kept /\ UNCHANGED request /\ Is(c, {"sweep"}) /\ UnderWay(c)
    BY <1>9 DEF ListPage, Goes, docs, Kept, Base, CallTypes, Placed, Stops, Ends, Is, UnderWay
  <2>3. Uses' = Uses
    BY <2>2 DEF Kept, Uses
  <2> QED
    BY <1>0, <2>1, <2>2, <2>3 DEF ResolvedFor, Is, Moves, UsedBy
<1>10. CASE NextImage(c)
  <2>1. Kept /\ UNCHANGED request /\ Is(c, {"sweep"}) /\ UnderWay(c) /\ sweep[c].image = None
    BY <1>10 DEF NextImage, Goes, docs, Kept, Base, CallTypes, Placed, Stops, Ends, Is, UnderWay
  <2>2. sweep[c].shop = "?" /\ sweep[c].users = "?"
    BY <2>1 DEF Base, SweepTypes
  <2>3. CASE sweep[c].page = {}
    BY <1>10, <2>1, <2>2, <2>3 DEF NextImage, ResolvedFor, Is
  <2>4. CASE sweep[c].page # {}
    BY <1>10, <2>1, <2>2, <2>4, NextImageMoves DEF ResolvedFor, Is, Moves
  <2> QED
    BY <2>3, <2>4
<1>11. CASE AskProducts(c)
  <2>1. PICK answer \in {"no", "yes"} :
           /\ \/ answer = Answer(\E p \in Products : <<sweep[c].image, p>> \in Uses) /\ UNCHANGED unanswered
              \/ answer = "no" /\ unanswered' = TRUE
           /\ Moves(c, sweep[c].listed, sweep[c].page, sweep[c].image, answer, sweep[c].users)
    BY <1>11, AskProductsMoves
  <2>2. Kept /\ UNCHANGED request /\ Is(c, {"sweep"}) /\ UnderWay(c)
    BY <1>11 DEF AskProducts, docs, Kept, Base, CallTypes, Placed, Stops, Ends, Is, UnderWay
  <2>3. Uses' = Uses
    BY <2>2 DEF Kept, Uses
  <2>4. answer = "no" => \A p \in Products : <<sweep[c].image, p>> \notin Uses
    BY <2>1 DEF Answer
  <2> QED
    BY <1>0, <2>1, <2>2, <2>3, <2>4 DEF ResolvedFor, Is, Moves, UsedBy
<1>12. CASE AskUsers(c)
  <2>1. Moves(c, sweep[c].listed, sweep[c].page, sweep[c].image, sweep[c].shop, Answer(avatar = sweep[c].image))
    BY <1>12, AskUsersMoves
  <2>2. Kept /\ UNCHANGED request /\ Is(c, {"sweep"}) /\ UnderWay(c)
    BY <1>12 DEF AskUsers, docs, Kept, Base, CallTypes, Placed, Stops, Ends, Is, UnderWay
  <2>3. Uses' = Uses
    BY <2>2 DEF Kept, Uses
  <2>4. Answer(avatar = sweep[c].image) = "no" => <<sweep[c].image, UsersHold>> \notin Uses
    BY UsesAre DEF Answer
  <2> QED
    BY <1>0, <2>1, <2>2, <2>3, <2>4 DEF ResolvedFor, Is, Moves, UsedBy
<1>13. CASE RemoveOrKeep(c)
  <2>1. Moves(c, sweep[c].listed, sweep[c].page, None, "?", "?")
    BY <1>13, RemoveOrKeepMoves
  <2>2. UNCHANGED request /\ Is(c, {"sweep"})
    BY <1>13 DEF RemoveOrKeep, Base, CallTypes, Placed, Stops, Ends, Is
  <2> QED
    BY <2>1, <2>2 DEF ResolvedFor, Is, Moves
<1>14. CASE LastPage(c)
  BY <1>14 DEF LastPage, Goes, Base, CallTypes, UnderWay
<1>15. CASE WriteWhole(c) \/ WriteDeletion(c) \/ Commit(c) \/ Conflict(c) \/ Fail(c)
  BY <1>15 DEF WriteWhole, WriteDeletion, Commit, Conflict, Fail, Goes, Leaves, Base, CallTypes, UnderWay
<1>16. CASE WriteUpload(c) \/ WriteAvatar(c) \/ WriteCategory(c) \/ WriteLabel(c)
  BY <1>16 DEF WriteUpload, WriteAvatar, WriteCategory, WriteLabel, Goes, Base, CallTypes, UnderWay
<1> QED
  BY <1>1, <1>2, <1>3, <1>4, <1>5, <1>6, <1>7, <1>8, <1>9, <1>10, <1>11, <1>12, <1>13, <1>14, <1>15, <1>16
     DEF Starts, Steps

LEMMA ResolvedStep ==
  ASSUME Base, Mixed, Mixed', ImagesThere, Resolved, NEW c \in Calls, (\E r \in Menu : Starts(c, r)) \/ Steps(c),
         mixed => mixed'
  PROVE  Resolved'
<1>1. ASSUME ~ mixed', ~ unanswered', NEW d \in Calls, UnderWay(d)' PROVE ResolvedFor(d)'
  <2>1. CASE d = c
    BY <1>1, <2>1, ResolvedCaller
  <2>2. CASE d # c
    BY <1>1, <2>2, ResolvedOthers
  <2> QED
    BY <2>1, <2>2
<1> QED
  BY <1>1, ResolvedParts

(* The uses that have lasted as long as a removal.                         *)
HeldFor(c) ==
  /\ held[c] \subseteq Uses
  /\ ~ unanswered /\ sweep[c].shop = "no" => \A p \in Products : <<sweep[c].image, p>> \notin held[c]
  /\ sweep[c].users = "no" => <<sweep[c].image, UsersHold>> \notin held[c]

(* An answer "no" is one the call had already, or the truth.               *)
AnswersOf(c) ==
  /\ sweep'[c].shop = "no" =>
       \/ sweep'[c].image = sweep[c].image /\ sweep[c].shop = "no"
       \/ unanswered'
       \/ Kept /\ \A p \in Products : <<sweep'[c].image, p>> \notin Uses
  /\ sweep'[c].users = "no" =>
       \/ sweep'[c].image = sweep[c].image /\ sweep[c].users = "no"
       \/ Kept /\ <<sweep'[c].image, UsersHold>> \notin Uses

LEMMA AnswersAre ==
  ASSUME Base, NEW c \in Calls, (\E r \in Menu : Starts(c, r)) \/ Steps(c)
  PROVE  AnswersOf(c)
<1>1. ASSUME NEW r \in Menu, StartCreate(c, r) \/ StartPut(c, r) \/ StartDelete(c, r) \/ StartSale(c, r)
             \/ StartUpload(c, r) \/ StartAvatar(c, r) \/ StartCategory(c, r) \/ StartLabel(c, r) \/ StartSweep(c, r)
      PROVE  AnswersOf(c)
  BY <1>1 DEF StartCreate, StartPut, StartDelete, StartSale, StartUpload, StartAvatar, StartCategory, StartLabel,
     StartSweep, Begin, Placed, AnswersOf, docs, progress, stockHistory
<1>2. CASE CheckSku(c) \/ ResolveImages(c) \/ CheckAttributes(c) \/ LastPage(c)
  BY <1>2 DEF CheckSku, ResolveImages, CheckAttributes, LastPage, AnswersOf, docs, progress, stockHistory
<1>3. CASE WriteWhole(c) \/ WriteDeletion(c) \/ WriteUpload(c) \/ WriteAvatar(c) \/ WriteCategory(c) \/ WriteLabel(c)
  BY <1>3 DEF WriteWhole, WriteDeletion, WriteUpload, WriteAvatar, WriteCategory, WriteLabel, AnswersOf, docs,
     progress, stockHistory
<1>4. CASE LockSale(c) \/ OpenTransaction(c) \/ ReadStock(c) \/ Commit(c) \/ Conflict(c) \/ Fail(c)
  BY <1>4 DEF LockSale, OpenTransaction, ReadStock, Commit, Conflict, Fail, AnswersOf, docs, progress, stockHistory
<1>5. CASE ListPage(c)
  <2>1. PICK page \in SUBSET library :
          Moves(c, sweep[c].listed \cup page, page, sweep[c].image, sweep[c].shop, sweep[c].users)
    BY <1>5, ListPageMoves
  <2> QED
    BY <1>5, <2>1 DEF Moves, AnswersOf, Kept, docs, ListPage
<1>6. CASE NextImage(c)
  <2>1. sweep[c].image = None /\ Kept
    BY <1>6 DEF NextImage, Kept, docs
  <2>2. sweep[c].shop = "?" /\ sweep[c].users = "?"
    BY <2>1 DEF Base, SweepTypes
  <2>3. CASE sweep[c].page = {}
    BY <1>6, <2>1, <2>2, <2>3 DEF NextImage, AnswersOf
  <2>4. CASE sweep[c].page # {}
    BY <1>6, <2>1, <2>2, <2>4, NextImageMoves DEF AnswersOf, Moves
  <2> QED
    BY <2>3, <2>4
<1>7. CASE AskProducts(c)
  <2>1. PICK answer \in {"no", "yes"} :
           /\ \/ answer = Answer(\E p \in Products : <<sweep[c].image, p>> \in Uses) /\ UNCHANGED unanswered
              \/ answer = "no" /\ unanswered' = TRUE
           /\ Moves(c, sweep[c].listed, sweep[c].page, sweep[c].image, answer, sweep[c].users)
    BY <1>7, AskProductsMoves
  <2>2. Kept
    BY <1>7 DEF AskProducts, docs, Kept
  <2>3. answer = "no" /\ ~ unanswered' => \A p \in Products : <<sweep[c].image, p>> \notin Uses
    BY <2>1 DEF Answer
  <2> QED
    BY <2>1, <2>2, <2>3 DEF AnswersOf, Moves
<1>8. CASE AskUsers(c)
  <2>1. Moves(c, sweep[c].listed, sweep[c].page, sweep[c].image, sweep[c].shop, Answer(avatar = sweep[c].image))
    BY <1>8, AskUsersMoves
  <2>2. Kept
    BY <1>8 DEF AskUsers, docs, Kept
  <2>3. Answer(avatar = sweep[c].image) = "no" => <<sweep[c].image, UsersHold>> \notin Uses
    BY UsesAre DEF Answer
  <2> QED
    BY <2>1, <2>2, <2>3 DEF AnswersOf, Moves
<1>9. CASE RemoveOrKeep(c)
  <2>1. Moves(c, sweep[c].listed, sweep[c].page, None, "?", "?")
    BY <1>9, RemoveOrKeepMoves
  <2> QED
    BY <2>1 DEF AnswersOf, Moves
<1> QED
  BY <1>1, <1>2, <1>3, <1>4, <1>5, <1>6, <1>7, <1>8, <1>9 DEF Starts, Steps

LEMMA HeldStep ==
  ASSUME Base, HeldSound, NEW c \in Calls, (\E r \in Menu : Starts(c, r)) \/ Steps(c), Remember
  PROVE  HeldSound'
<1> SUFFICES ASSUME NEW d \in Calls PROVE HeldFor(d)'
  BY DEF HeldSound, HeldFor
<1>1. held'[d] = IF ~ Is(d, {"sweep"})' \/ ~ UnderWay(d)' THEN {}
                 ELSE IF at[d] = "idle" THEN Uses' ELSE held[d] \cap Uses'
  BY DEF Remember
<1>2. unanswered => unanswered'
  BY ImageSteps
<1>3. HeldFor(d) /\ Base'
  BY BaseStep DEF HeldSound, HeldFor
<1>4. CASE ~ Is(d, {"sweep"})' \/ ~ UnderWay(d)'
  BY <1>1, <1>4 DEF HeldFor
<1>5. CASE Is(d, {"sweep"})' /\ UnderWay(d)' /\ at[d] = "idle"
  <2>1. d = c
    BY <1>5, OthersStay DEF Others, UnderWay
  <2>2. \E r \in Menu : Starts(c, r)
    BY <1>5, <2>1 DEF Steps, CheckSku, ResolveImages, CheckAttributes, WriteWhole, WriteDeletion, LockSale,
         OpenTransaction, ReadStock, Commit, Conflict, WriteUpload, WriteAvatar, WriteCategory, WriteLabel, ListPage,
         LastPage, NextImage, AskProducts, AskUsers, RemoveOrKeep, Fail, Goes, UnderWay
  <2>3. sweep' = sweep
    BY <2>2 DEF Starts, StartCreate, StartPut, StartDelete, StartSale, StartUpload, StartAvatar, StartCategory,
         StartLabel, StartSweep, progress
  <2>4. sweep[d] = NoSweep
    BY <1>5 DEF Base, SweepTypes
  <2> QED
    BY <1>1, <1>5, <2>3, <2>4 DEF HeldFor, NoSweep
<1>6. CASE Is(d, {"sweep"})' /\ UnderWay(d)' /\ at[d] # "idle"
  <2>1. held'[d] = held[d] \cap Uses'
    BY <1>1, <1>6
  <2>2. AnswersOf(c) /\ (d # c => sweep'[d] = sweep[d])
    BY AnswersAre, OthersStay DEF Others
  <2>3. held[d] \subseteq Uses
    BY <1>3 DEF HeldFor
  <2>4. CASE d # c
    BY <1>2, <1>3, <2>1, <2>2, <2>4 DEF HeldFor
  <2>5. CASE d = c
    BY <1>2, <1>3, <2>1, <2>2, <2>3, <2>5 DEF HeldFor, AnswersOf
  <2> QED
    BY <2>4, <2>5
<1> QED
  BY <1>4, <1>5, <1>6

(* An image that goes was in no use that has lasted.                       *)
LEMMA UsedStaysStep ==
  ASSUME Base, HeldSound, NEW c \in Calls, (\E r \in Menu : Starts(c, r)) \/ Steps(c),
         NEW i \in library \ library'
  PROVE  sweep[c].image = i /\ (unanswered \/ \A u \in held[c] : u[1] # i)
<1>1. RemoveOrKeep(c)
  BY ImageSteps DEF Kept, WriteUpload
<1>2. Unused(c) /\ sweep[c].image = i
  BY <1>1 DEF RemoveOrKeep
<1>3. sweep[c].shop = "no" /\ sweep[c].users = "no"
  BY <1>2 DEF Unused
<1>4. HeldFor(c)
  BY DEF HeldSound, HeldFor
<1>5. ASSUME ~ unanswered, NEW u \in held[c], u[1] = i PROVE FALSE
  <2>1. PICK j \in Images, h \in Products \cup {UsersHold} : u = <<j, h>>
    BY <1>4, UsesAre DEF HeldFor
  <2>2. j = i
    BY <1>5, <2>1
  <2> QED
    BY <1>2, <1>3, <1>4, <1>5, <2>1, <2>2 DEF HeldFor
<1> QED
  BY <1>2, <1>5

-----------------------------------------------------------------------------
(* A call on its own.                                                      *)
LEMMA StartsAndSteps ==
  ASSUME Base, NEW c \in Calls
  PROVE  /\ Steps(c) => UnderWay(c)
         /\ \A r \in Menu : Starts(c, r) =>
              /\ at[c] = "idle" /\ ~ UnderWay(c) /\ request'[c] = r /\ request[c] = NoRequest
              /\ UNCHANGED <<docs, sweep, unanswered>>
<1>1. ASSUME Steps(c) PROVE UnderWay(c)
  <2>1. CASE CheckSku(c) \/ ResolveImages(c) \/ CheckAttributes(c) \/ WriteWhole(c) \/ WriteDeletion(c) \/ LockSale(c)
             \/ OpenTransaction(c) \/ ReadStock(c) \/ Commit(c) \/ Conflict(c)
    BY <2>1 DEF CheckSku, ResolveImages, CheckAttributes, WriteWhole, WriteDeletion, LockSale, OpenTransaction,
         ReadStock, Commit, Conflict, Goes, UnderWay
  <2>2. CASE ~ (CheckSku(c) \/ ResolveImages(c) \/ CheckAttributes(c) \/ WriteWhole(c) \/ WriteDeletion(c)
             \/ LockSale(c)
                \/ OpenTransaction(c) \/ ReadStock(c) \/ Commit(c) \/ Conflict(c))
    BY <1>1, <2>2 DEF Steps, WriteUpload, WriteAvatar, WriteCategory, WriteLabel, ListPage, LastPage, NextImage,
         AskProducts, AskUsers, RemoveOrKeep, Fail, Goes, UnderWay
  <2> QED
    BY <2>1, <2>2
<1>2. ASSUME NEW r \in Menu, Starts(c, r)
      PROVE  request[c] = NoRequest /\ request'[c] = r /\ UNCHANGED <<docs, sweep, unanswered>>
  <2>1. Begin(c, r, at'[c]) /\ UNCHANGED <<docs, sweep, unanswered>>
    BY <1>2 DEF Starts, StartCreate, StartPut, StartDelete, StartSale, StartUpload, StartAvatar, StartCategory,
         StartLabel, StartSweep, Begin, progress, Base, CallTypes
  <2> QED
    BY <2>1 DEF Begin, Base, CallTypes
<1> QED
  BY <1>1, <1>2 DEF Base, Placed, UnderWay

OwnFor(c) ==
  /\ UnderWay(c) /\ \A d \in Calls \ {c} : ~ UnderWay(d)
  /\ product = before[c].product /\ Uses = before[c].uses
  /\ ~ Is(c, {"sweep"}) => library = before[c].library
  /\ Is(c, {"sweep"}) => Swept(c)
  /\ Is(c, {"drop"}) => copy[c] = WithoutSku(product[request[c].p], request[c].sku)
  /\ Is(c, {"sale"}) /\ copy[c] # None =>
       /\ InStock(product[request[c].p], request[c].sku)
       /\ copy[c] = LessOne(product[request[c].p], request[c].sku)

LEMMA OwnParts ==
  /\ OnItsOwn <=> \A c \in Calls : before[c] # None => OwnFor(c)
  /\ OnItsOwn' <=> \A c \in Calls : (before[c] # None)' => OwnFor(c)'
  BY DEF OnItsOwn, OwnFor

LEMMA RememberOwn ==
  ASSUME Remember, NEW c \in Calls, before'[c] # None
  PROVE  /\ UnderWay(c)' /\ \A d \in Calls \ {c} : ~ UnderWay(d)'
         /\ UnderWay(c) => before'[c] = before[c]
         /\ ~ UnderWay(c) => /\ before'[c].product = product /\ before'[c].library = library
                             /\ before'[c].uses = Uses
  BY DEF Remember

LEMMA OwnOthers ==
  ASSUME Base, OnItsOwn, NEW c \in Calls, (\E r \in Menu : Starts(c, r)) \/ Steps(c), Remember,
         NEW d \in Calls \ {c}, before'[d] # None
  PROVE  OwnFor(d)'
<1>1. /\ UnderWay(d) /\ at'[d] = at[d] /\ request'[d] = request[d] /\ copy'[d] = copy[d] /\ sweep'[d] = sweep[d]
      /\ before'[d] = before[d] /\ UnderWay(d)' /\ \A e \in Calls \ {d} : ~ UnderWay(e)'
  BY OthersStay, RememberOwn DEF Others, UnderWay
<1>2. OwnFor(d)
  BY <1>1, OwnParts
<1>3. ~ UnderWay(c)
  BY <1>2 DEF OwnFor
<1>4. UNCHANGED <<docs, sweep, unanswered>>
  BY <1>3, StartsAndSteps
<1>5. product' = product /\ library' = library /\ Uses' = Uses /\ unanswered' = unanswered
  BY <1>4 DEF docs, Uses
<1>6. Is(d, {"sweep"}) => Swept(d)'
  BY <1>1, <1>2, <1>5 DEF OwnFor, Swept, UsedBy
<1> QED
  BY <1>1, <1>2, <1>5, <1>6 DEF OwnFor, Is

LEMMA OwnBegins ==
  ASSUME Base, NEW c \in Calls, NEW r \in Menu, Starts(c, r), Remember, before'[c] # None
  PROVE  OwnFor(c)'
<1>1. /\ at[c] = "idle" /\ ~ UnderWay(c) /\ request'[c] = r
      /\ UNCHANGED <<docs, sweep, unanswered>>
  BY StartsAndSteps
<1>2. /\ product' = before'[c].product /\ library' = before'[c].library /\ Uses' = before'[c].uses
      /\ UnderWay(c)' /\ (\A d \in Calls \ {c} : ~ UnderWay(d)') /\ product' = product
  BY <1>1, RememberOwn DEF docs, Uses
<1>3. Is(c, {"sweep"})' => Swept(c)'
  <2>1. sweep'[c] = NoSweep
    BY <1>1 DEF Base, SweepTypes
  <2> QED
    BY <1>2, <2>1 DEF Swept, NoSweep
<1>4. Is(c, {"drop"})' => copy'[c] = WithoutSku(product'[request'[c].p], request'[c].sku)
  <2>1. r.kind = "drop" => StartDelete(c, r)
    BY DEF Starts, StartCreate, StartPut, StartDelete, StartSale, StartUpload, StartAvatar, StartCategory,
       StartLabel, StartSweep
  <2>2. r.kind = "drop" => copy'[c] = WithoutSku(product[r.p], r.sku)
    BY <1>2, <2>1 DEF StartDelete, Begin, UnderWay, Base, CallTypes
  <2> QED
    BY <1>1, <1>2, <2>2 DEF Is
<1>5. Is(c, {"sale"})' => copy'[c] = None
  <2>1. r.kind = "sale" => StartSale(c, r)
    BY DEF Starts, StartCreate, StartPut, StartDelete, StartSale, StartUpload, StartAvatar, StartCategory,
       StartLabel, StartSweep
  <2> QED
    BY <1>1, <2>1 DEF StartSale, Is, Base, Copies
<1> QED
  BY <1>2, <1>3, <1>4, <1>5 DEF OwnFor

(* A removal that is alone keeps its account of what it has seen.          *)
Counted(c) ==
  /\ \A i \in before[c].library : (\E h \in Products \cup {UsersHold} : UsedBy(i, h)) => i \in library
  /\ \A i \in (library \cap sweep[c].listed) \ (sweep[c].page \cup {sweep[c].image}) :
       \E h \in Products \cup {UsersHold} : UsedBy(i, h)
  /\ sweep[c].shop = "yes" => \E p \in Products : UsedBy(sweep[c].image, p)
  /\ sweep[c].shop = "no" => \A p \in Products : ~ UsedBy(sweep[c].image, p)
  /\ sweep[c].users = "yes" => UsedBy(sweep[c].image, UsersHold)
  /\ sweep[c].users = "no" => ~ UsedBy(sweep[c].image, UsersHold)

LEMMA SweptParts ==
  ASSUME NEW c
  PROVE  /\ Swept(c) <=> /\ library \subseteq before[c].library
                         /\ at[c] = "page" => sweep[c].page = {} /\ sweep[c].image = None
                         /\ ~ unanswered => Counted(c)
         /\ Swept(c)' <=> /\ library' \subseteq before'[c].library
                          /\ at'[c] = "page" => sweep'[c].page = {} /\ sweep'[c].image = None
                          /\ ~ unanswered' => Counted(c)'
  BY DEF Swept, Counted

LEMMA SweptStep ==
  ASSUME Base, NEW c \in Calls, Swept(c), before'[c] = before[c], Uses' = Uses,
         ListPage(c) \/ NextImage(c) \/ AskProducts(c) \/ AskUsers(c) \/ RemoveOrKeep(c)
  PROVE  Swept(c)'
<1>0. /\ library \subseteq before[c].library /\ library \subseteq Images
      /\ at[c] = "page" => sweep[c].page = {} /\ sweep[c].image = None
      /\ ~ unanswered => Counted(c)
      /\ \A i, h : UsedBy(i, h)' <=> UsedBy(i, h)
  BY SweptParts DEF Base, DocTypes, UsedBy
<1>1. CASE ListPage(c)
  <2>1. PICK page \in SUBSET library :
          Moves(c, sweep[c].listed \cup page, page, sweep[c].image, sweep[c].shop, sweep[c].users)
    BY <1>1, ListPageMoves
  <2>2. at[c] = "page" /\ at'[c] = "image" /\ library' = library /\ unanswered' = unanswered
    BY <1>1 DEF ListPage, Goes, docs, Base, CallTypes
  <2>3. ASSUME ~ unanswered PROVE Counted(c)'
    <3>1. Counted(c)
      BY <1>0, <2>3
    <3>2. \A i \in (library' \cap sweep'[c].listed) \ (sweep'[c].page \cup {sweep'[c].image}) :
            \E h \in Products \cup {UsersHold} : UsedBy(i, h)
      BY <1>0, <2>1, <2>2, <3>1 DEF Counted, Moves
    <3> QED
      BY <1>0, <2>1, <2>2, <3>1, <3>2 DEF Counted, Moves
  <2> QED
    BY <1>0, <2>2, <2>3, SweptParts
<1>2. CASE NextImage(c) /\ sweep[c].page = {}
  <2>1. sweep' = sweep /\ library' = library /\ unanswered' = unanswered /\ sweep[c].image = None
    BY <1>2 DEF NextImage, docs
  <2> QED
    BY <1>0, <1>2, <2>1, SweptParts DEF Counted
<1>3. CASE NextImage(c) /\ sweep[c].page # {}
  <2>1. PICK i \in sweep[c].page : Moves(c, sweep[c].listed, sweep[c].page \ {i}, i, sweep[c].shop, sweep[c].users)
    BY <1>3, NextImageMoves
  <2>2. at'[c] = "image" /\ library' = library /\ unanswered' = unanswered /\ sweep[c].image = None
    BY <1>3 DEF NextImage, docs
  <2>3. sweep'[c].shop = "?" /\ sweep'[c].users = "?" /\ None \notin Images
    BY <2>1, <2>2, ProductsAssumption DEF Base, SweepTypes, Moves
  <2>4. ASSUME ~ unanswered PROVE Counted(c)'
    <3>1. Counted(c)
      BY <1>0, <2>4
    <3>2. \A j \in (library' \cap sweep'[c].listed) \ (sweep'[c].page \cup {sweep'[c].image}) :
            \E h \in Products \cup {UsersHold} : UsedBy(j, h)
      BY <1>0, <2>1, <2>2, <2>3, <3>1 DEF Counted, Moves
    <3> QED
      BY <1>0, <2>1, <2>2, <2>3, <3>1, <3>2 DEF Counted, Moves
  <2> QED
    BY <1>0, <2>2, <2>4, SweptParts
<1>4. CASE AskProducts(c)
  <2>1. PICK answer \in {"no", "yes"} :
           /\ \/ answer = Answer(\E p \in Products : <<sweep[c].image, p>> \in Uses) /\ UNCHANGED unanswered
              \/ answer = "no" /\ unanswered' = TRUE
           /\ Moves(c, sweep[c].listed, sweep[c].page, sweep[c].image, answer, sweep[c].users)
    BY <1>4, AskProductsMoves
  <2>2. at'[c] = "image" /\ library' = library
    BY <1>4 DEF AskProducts, docs
  <2>3. ASSUME ~ unanswered' PROVE Counted(c)'
    <3>0. ~ unanswered
      BY <1>4, <2>3, ImageSteps DEF Steps
    <3>1. Counted(c)
      BY <1>0, <3>0
    <3>2. /\ answer = "yes" => \E p \in Products : UsedBy(sweep[c].image, p)
          /\ answer = "no" => \A p \in Products : ~ UsedBy(sweep[c].image, p)
      BY <2>1, <2>3 DEF Answer, UsedBy
    <3> QED
      BY <1>0, <2>1, <2>2, <3>1, <3>2 DEF Counted, Moves
  <2> QED
    BY <1>0, <2>2, <2>3, SweptParts
<1>5. CASE AskUsers(c)
  <2>1. Moves(c, sweep[c].listed, sweep[c].page, sweep[c].image, sweep[c].shop, Answer(avatar = sweep[c].image))
    BY <1>5, AskUsersMoves
  <2>2. at'[c] = "image" /\ library' = library /\ unanswered' = unanswered
    BY <1>5 DEF AskUsers, docs
  <2>3. ASSUME ~ unanswered PROVE Counted(c)'
    <3>1. Counted(c)
      BY <1>0, <2>3
    <3>2. sweep[c].image \in Images
      BY <1>5 DEF AskUsers, Base, SweepTypes
    <3>3. /\ Answer(avatar = sweep[c].image) = "yes" => UsedBy(sweep[c].image, UsersHold)
          /\ Answer(avatar = sweep[c].image) = "no" => ~ UsedBy(sweep[c].image, UsersHold)
      BY <3>2, UsesAre DEF Answer, UsedBy
    <3> QED
      BY <1>0, <2>1, <2>2, <3>1, <3>3 DEF Counted, Moves
  <2> QED
    BY <1>0, <2>2, <2>3, SweptParts
<1>6. CASE RemoveOrKeep(c)
  <2>1. Moves(c, sweep[c].listed, sweep[c].page, None, "?", "?")
    BY <1>6, RemoveOrKeepMoves
  <2>2. at'[c] = "image" /\ unanswered' = unanswered /\ library' \subseteq library /\ "?" \notin {sweep[c].shop,
        sweep[c].users}
        /\ library' = IF Unused(c) THEN library \ {sweep[c].image} ELSE library
    BY <1>6 DEF RemoveOrKeep
  <2>3. sweep[c].shop \in {"?", "no", "yes"} /\ sweep[c].users \in {"?", "no", "yes"}
    BY SweepFields DEF Base
  <2>4. ASSUME ~ unanswered PROVE Counted(c)'
    <3>1. Counted(c)
      BY <1>0, <2>4
    <3>2. CASE Unused(c)
      <4>1. sweep[c].shop = "no" /\ sweep[c].users = "no"
        BY <3>2 DEF Unused
      <4>2. \A h \in Products \cup {UsersHold} : ~ UsedBy(sweep[c].image, h)
        BY <3>1, <4>1 DEF Counted
      <4> QED
        BY <1>0, <2>1, <2>2, <3>1, <3>2, <4>2 DEF Counted, Moves
    <3>3. CASE ~ Unused(c)
      <4>1. sweep[c].shop = "yes" \/ sweep[c].users = "yes"
        BY <2>2, <2>3, <3>3 DEF Unused
      <4>2. \E h \in Products \cup {UsersHold} : UsedBy(sweep[c].image, h)
        BY <3>1, <4>1 DEF Counted
      <4> QED
        BY <1>0, <2>1, <2>2, <3>1, <3>3, <4>2 DEF Counted, Moves
    <3> QED
      BY <3>2, <3>3
  <2> QED
    BY <1>0, <2>2, <2>4, SweptParts
<1> QED
  BY <1>1, <1>2, <1>3, <1>4, <1>5, <1>6

LEMMA OwnGoesOn ==
  ASSUME Base, OnItsOwn, NEW c \in Calls, Steps(c), UnderWay(c), Remember, before'[c] # None
  PROVE  OwnFor(c)'
<1>1. OwnFor(c) /\ before'[c] = before[c] /\ UnderWay(c)' /\ (\A d \in Calls \ {c} : ~ UnderWay(d)')
  BY RememberOwn, OwnParts
<1>2. CASE CheckSku(c) \/ ResolveImages(c) \/ CheckAttributes(c) \/ LockSale(c) \/ OpenTransaction(c)
  <2>1. UNCHANGED <<request, copy>> /\ Kept /\ ~ Is(c, {"sweep"})
    BY <1>2 DEF CheckSku, ResolveImages, CheckAttributes, LockSale, OpenTransaction, Goes, docs, Kept,
             Base, CallTypes, Placed, Stops, Ends, Is
  <2>2. Uses' = Uses
    BY <2>1 DEF Kept, Uses
  <2> QED
    BY <1>1, <2>1, <2>2 DEF OwnFor, Is, Kept
<1>3. CASE ReadStock(c)
  <2>1. request' = request /\ Kept /\ Is(c, {"sale"})
        /\ InStock(product[request[c].p], request[c].sku)
        /\ copy'[c] = LessOne(product[request[c].p], request[c].sku)
    BY <1>3, <1>1 DEF ReadStock, Leaves, docs, Kept, Base, CallTypes, UnderWay, Placed, Stops, Ends, Is
  <2>2. Uses' = Uses /\ product' = product
    BY <2>1 DEF Kept, Uses
  <2> QED
    BY <1>1, <2>1, <2>2 DEF OwnFor, Is, Kept
<1>4. CASE ListPage(c) \/ NextImage(c) \/ AskProducts(c) \/ AskUsers(c) \/ RemoveOrKeep(c)
  <2>1. UNCHANGED <<request, copy, product, avatar>> /\ Is(c, {"sweep"})
    BY <1>4 DEF ListPage, NextImage, AskProducts, AskUsers, RemoveOrKeep, Goes, docs, Base, CallTypes, Placed, Stops,
       Ends, Is
  <2>2. Uses' = Uses
    BY <2>1 DEF Uses
  <2>3. Swept(c)'
    BY <1>4, <1>1, <2>1, <2>2, SweptStep DEF OwnFor
  <2> QED
    BY <1>1, <2>1, <2>2, <2>3 DEF OwnFor, Is
<1>5. CASE LastPage(c)
  BY <1>1, <1>5 DEF LastPage, Goes, Base, CallTypes, UnderWay
<1>6. CASE WriteWhole(c) \/ WriteDeletion(c) \/ Commit(c) \/ Conflict(c) \/ Fail(c)
  BY <1>1, <1>6 DEF WriteWhole, WriteDeletion, Commit, Conflict, Fail, Goes, Leaves, Base, CallTypes, UnderWay
<1>7. CASE WriteUpload(c) \/ WriteAvatar(c) \/ WriteCategory(c) \/ WriteLabel(c)
  BY <1>1, <1>7 DEF WriteUpload, WriteAvatar, WriteCategory, WriteLabel, Goes, Base, CallTypes, UnderWay
<1> QED
  BY <1>2, <1>3, <1>4, <1>5, <1>6, <1>7 DEF Steps

LEMMA OwnStep ==
  ASSUME Base, OnItsOwn, NEW c \in Calls, (\E r \in Menu : Starts(c, r)) \/ Steps(c), Remember
  PROVE  OnItsOwn'
<1>1. ASSUME NEW d \in Calls, before'[d] # None PROVE OwnFor(d)'
  <2>1. CASE d # c
    BY <1>1, <2>1, OwnOthers
  <2>2. CASE d = c /\ \E r \in Menu : Starts(c, r)
    BY <1>1, <2>2, OwnBegins
  <2>3. CASE d = c /\ Steps(c)
    BY <1>1, <2>3, OwnGoesOn, StartsAndSteps
  <2> QED
    BY <2>1, <2>2, <2>3
<1> QED
  BY <1>1, OwnParts

(* What a finished call has written.                                       *)
LEMMA NewVariation ==
  ASSUME NEW v \in Variations, NEW n
  PROVE  /\ [v EXCEPT !.gone = TRUE] = [v EXCEPT !.gone = TRUE, !.stock = v.stock]
         /\ [v EXCEPT !.stock = n] = [v EXCEPT !.gone = v.gone, !.stock = n]
         /\ v = [v EXCEPT !.gone = v.gone, !.stock = v.stock]
<1>1. [v EXCEPT !.gone = TRUE] = [v EXCEPT !.gone = TRUE, !.stock = v.stock]
  BY DEF Variations
<1>2. [v EXCEPT !.stock = n] = [v EXCEPT !.gone = v.gone, !.stock = n]
  BY DEF Variations
<1>3. v = [v EXCEPT !.gone = v.gone, !.stock = v.stock]
  BY DEF Variations
<1> QED
  BY <1>1, <1>2, <1>3

Changed(r, was, is) ==
  /\ DOMAIN is.variations = DOMAIN was.variations
  /\ \A i \in DOMAIN is.variations :
       LET v == was.variations[i] hit == v.sku = r.sku IN
         is.variations[i] = [v EXCEPT !.gone = @ \/ (hit /\ r.kind = "drop"),
                                      !.stock = IF hit /\ r.kind = "sale" THEN @ - 1 ELSE @]
  /\ is.images = was.images /\ is.general = was.general /\ is.live = was.live

LEMMA DropChanges ==
  ASSUME NEW d, Good(d), NEW r, r.kind = "drop"
  PROVE  Changed(r, d, WithoutSku(d, r.sku))
<1>1. Version(d, WithoutSku(d, r.sku)) /\ Shape(d)
  BY DropShape, DocShape DEF Good
<1>2. ASSUME NEW i \in DOMAIN d.variations
      PROVE  WithoutSku(d, r.sku).variations[i] =
               [d.variations[i] EXCEPT !.gone = d.variations[i].gone
                  \/ (d.variations[i].sku = r.sku /\ r.kind = "drop"),
                                       !.stock = IF d.variations[i].sku = r.sku /\ r.kind = "sale"
                                                   THEN d.variations[i].stock - 1 ELSE d.variations[i].stock]
  <2> DEFINE v == d.variations[i]
  <2>1. v \in Variations /\ v.gone \in BOOLEAN
    BY <1>1 DEF Shape
  <2>2. WithoutSku(d, r.sku).variations[i] = IF v.sku = r.sku THEN [v EXCEPT !.gone = TRUE] ELSE v
    BY DropShape DEF Good
  <2>3. (IF v.sku = r.sku /\ r.kind = "sale" THEN v.stock - 1 ELSE v.stock) = v.stock
    OBVIOUS
  <2>4. (v.gone \/ (v.sku = r.sku /\ r.kind = "drop")) = IF v.sku = r.sku THEN TRUE ELSE v.gone
    BY <2>1
  <2> HIDE DEF v
  <2> SUFFICES WithoutSku(d, r.sku).variations[i] =
                 [v EXCEPT !.gone = IF v.sku = r.sku THEN TRUE ELSE v.gone, !.stock = v.stock]
    BY <2>3, <2>4 DEF v
  <2> QED
    BY <2>1, <2>2, NewVariation
<1> QED
  BY <1>1, <1>2 DEF Changed, Version

LEMMA SaleChanges ==
  ASSUME NEW d, Good(d), NEW r, r.kind = "sale", InStock(d, r.sku)
  PROVE  Changed(r, d, LessOne(d, r.sku))
<1> DEFINE n == IndexOf(d, r.sku)
           e == LessOne(d, r.sku)
<1>1. Version(d, e) /\ Shape(d)
      /\ (\A i \in DOMAIN d.variations \ {n} : e.variations[i] = d.variations[i])
      /\ e.variations[n] = [d.variations[n] EXCEPT !.stock = @ - 1]
  BY SaleShape, DocShape DEF Good, InStock
<1>2. n \in DOMAIN d.variations /\ d.variations[n].sku = r.sku
      /\ \A i \in DOMAIN d.variations : d.variations[i].sku = r.sku => i = n
  BY IndexOfSku, IndexUnique DEF Good, InStock
<1> HIDE DEF n, e
<1>3. ASSUME NEW i \in DOMAIN d.variations
      PROVE  e.variations[i] =
               [d.variations[i] EXCEPT !.gone = d.variations[i].gone
                  \/ (d.variations[i].sku = r.sku /\ r.kind = "drop"),
                                       !.stock = IF d.variations[i].sku = r.sku /\ r.kind = "sale"
                                                   THEN d.variations[i].stock - 1 ELSE d.variations[i].stock]
  <2> DEFINE v == d.variations[i]
  <2>1. v \in Variations /\ v.gone \in BOOLEAN
    BY <1>1 DEF Shape
  <2>2. e.variations[i] = IF v.sku = r.sku THEN [v EXCEPT !.stock = v.stock - 1] ELSE v
    BY <1>1, <1>2
  <2>3. (IF v.sku = r.sku /\ r.kind = "sale" THEN v.stock - 1 ELSE v.stock) = IF v.sku = r.sku THEN v.stock - 1 ELSE v.stock
    OBVIOUS
  <2>4. (v.gone \/ (v.sku = r.sku /\ r.kind = "drop")) = v.gone
    BY <2>1
  <2> HIDE DEF v
  <2> SUFFICES e.variations[i] =
                 [v EXCEPT !.gone = v.gone, !.stock = IF v.sku = r.sku THEN v.stock - 1 ELSE v.stock]
    BY <2>3, <2>4 DEF v
  <2> QED
    BY <2>1, <2>2, NewVariation
<1>4. Changed(r, d, e)
  BY <1>1, <1>3 DEF Changed, Version
<1> QED
  BY <1>4 DEF e

LEMMA ExactStep ==
  ASSUME Base, OnItsOwn, NEW c \in Calls, (\E r \in Menu : Starts(c, r)) \/ Steps(c),
         UnderWay(c), at'[c] = "done", before[c] # None
  PROVE  Exact(request[c], before[c])
<1>1. OwnFor(c) /\ Carries(c) /\ request[c] # NoRequest /\ request[c] \in Requests
  BY OwnParts DEF Base, Copies, Placed, UnderWay, CallTypes
<1>2. before[c].product = product /\ before[c].uses = Uses /\ (~ Is(c, {"sweep"}) => before[c].library = library)
      /\ product \in [Products -> Docs \cup {None}] /\ library \subseteq Images
  BY <1>1 DEF OwnFor, Base, DocTypes
<1>3. CASE WriteWhole(c)
  <2>1. request[c].kind \in {"create", "put"} /\ product' = [product EXCEPT ![request[c].p] = copy[c]]
        /\ copy[c] = request[c].doc
    BY <1>1, <1>3 DEF WriteWhole, Store, Carries, Is
  <2> QED
    BY <1>2, <2>1 DEF Exact
<1>4. CASE WriteDeletion(c) /\ Is(c, {"delete"})
  BY <1>2, <1>4 DEF WriteDeletion, Store, Is, Exact
<1>5. CASE (WriteDeletion(c) /\ Is(c, {"drop"})) \/ Commit(c)
  <2>1. Is(c, {"drop", "sale"}) /\ (Commit(c) => Is(c, {"sale"}))
    BY <1>1, <1>5 DEF Commit, Is, Base, Placed, Stops, Ends
  <2>2. request[c].p \in Products
    BY <1>1, <2>1, RequestShape DEF Is
  <2> DEFINE p == request[c].p
  <2>3. product' = [product EXCEPT ![p] = copy[c]]
    BY <1>5, <2>1 DEF WriteDeletion, Commit, Store, Is
  <2>4. Changed(request[c], product[p], copy[c])
    <3>1. CASE WriteDeletion(c) /\ Is(c, {"drop"})
      <4>1. product[p] # None /\ copy[c] = WithoutSku(product[p], request[c].sku)
        BY <1>1, <3>1 DEF Carries, OwnFor, Is
      <4> QED
        BY <2>2, <3>1, <4>1, DropChanges DEF Base, DocTypes, Is
    <3>2. CASE Commit(c)
      <4>1. InStock(product[p], request[c].sku) /\ copy[c] = LessOne(product[p], request[c].sku)
        BY <1>1, <2>1, <3>2 DEF OwnFor, Commit
      <4>2. Good(product[p])
        BY <2>2, <4>1 DEF InStock, Active, Base, DocTypes
      <4> QED
        BY <2>1, <3>2, <4>1, <4>2, SaleChanges DEF Is
    <3> QED
      BY <1>5, <3>1, <3>2
  <2>5. product'[p] = copy[c] /\ \A q \in Products \ {p} : product'[q] = product[q]
    BY <1>2, <2>2, <2>3
  <2>6. Changed(request[c], before[c].product[p], product'[p])
    BY <1>2, <2>4, <2>5
  <2>7. \A q \in Products \ {p} : product'[q] = before[c].product[q]
    BY <1>2, <2>5
  <2> QED
    BY <2>1, <2>6, <2>7 DEF Exact, Changed, Is
<1>6. CASE LastPage(c)
  <2>1. Is(c, {"sweep"}) /\ at[c] = "page" /\ library \subseteq sweep[c].listed /\ product' = product /\ library' = library
    BY <1>1, <1>6 DEF LastPage, Goes, docs, Is, Base, Placed, Stops, Ends
  <2>2. Swept(c) /\ sweep[c].page = {} /\ sweep[c].image = None /\ library \subseteq before[c].library
        /\ (~ unanswered => Counted(c))
    BY <1>1, <2>1, SweptParts DEF OwnFor
  <2>3. ASSUME ~ unanswered PROVE library' = {i \in before[c].library : \E u \in before[c].uses : u[1] = i}
    <3>1. ASSUME NEW i \in library PROVE \E u \in Uses : u[1] = i
      <4>1. \E h \in Products \cup {UsersHold} : UsedBy(i, h)
        BY <1>2, <2>1, <2>2, <2>3, <3>1, ProductsAssumption DEF Counted
      <4> QED
        BY <4>1 DEF UsedBy
    <3>2. ASSUME NEW i \in before[c].library, NEW u \in Uses, u[1] = i PROVE i \in library
      <4>1. PICK j \in Images, h \in Products \cup {UsersHold} : u = <<j, h>>
        BY UsesAre
      <4> QED
        BY <2>2, <2>3, <3>2, <4>1 DEF Counted, UsedBy
    <3> QED
      BY <1>2, <2>1, <2>2, <3>1, <3>2
  <2> QED
    BY <1>2, <2>1, <2>3 DEF Exact, Is
<1>7. CASE WriteUpload(c)
  BY <1>1, <1>2, <1>7 DEF WriteUpload, Exact, Is
<1>8. CASE WriteAvatar(c) \/ WriteCategory(c) \/ WriteLabel(c)
  <2>1. request[c].kind \in {"avatar", "category", "label"} /\ product' = product /\ library' = library
    BY <1>8 DEF WriteAvatar, WriteCategory, WriteLabel, Is
  <2> QED
    BY <1>2, <2>1 DEF Exact, Is
<1>9. ~ (CheckSku(c) \/ ResolveImages(c) \/ CheckAttributes(c) \/ LockSale(c) \/ OpenTransaction(c) \/ ReadStock(c)
         \/ Conflict(c) \/ Fail(c))
  BY DEF CheckSku, ResolveImages, CheckAttributes, LockSale, OpenTransaction, ReadStock, Conflict, Fail, Goes, Leaves,
     Base, CallTypes, UnderWay
<1>10. ~ (ListPage(c) \/ NextImage(c) \/ AskProducts(c) \/ AskUsers(c) \/ RemoveOrKeep(c))
  BY DEF ListPage, NextImage, AskProducts, AskUsers, RemoveOrKeep, Goes, Base, CallTypes
<1>11. Steps(c)
  BY StartsAndSteps
<1> QED
  BY <1>3, <1>4, <1>5, <1>6, <1>7, <1>8, <1>9, <1>10, <1>11 DEF Steps, WriteDeletion, Is

-----------------------------------------------------------------------------
(* In the beginning.                                                       *)
LEMMA InitInv ==
  ASSUME Init
  PROVE  Inv
<1>1. \A p \in Products : product[p] # None => Good(product[p])
  BY ProductsAssumption DEF Init, Good
<1>2. shelf \in [Products -> [Skus -> Int]]
  <2>1. ASSUME NEW p \in Products, NEW s \in Skus
        PROVE  (IF product[p] # None /\ s \in SkusOf(product[p])
                 THEN product[p].variations[IndexOf(product[p], s)].stock ELSE 0) \in Int
    <3>1. CASE product[p] # None /\ s \in SkusOf(product[p])
      <4>1. product[p] \in Docs /\ Shape(product[p]) /\ MaxStock \in Nat
        BY <1>1, <3>1, DocShape, ProductsAssumption DEF Good
      <4>2. IndexOf(product[p], s) \in DOMAIN product[p].variations
        BY <3>1, <4>1, IndexOfSku
      <4> QED
        BY <3>1, <4>1, <4>2 DEF Shape
    <3> QED
      BY <3>1
  <2> QED
    BY <2>1 DEF Init
<1>3. DocTypes
  BY <1>1, <1>2, ProductsAssumption DEF Init, DocTypes
<1>4. CallTypes /\ SweepTypes /\ Placed /\ Locked
  BY ProductsAssumption DEF Init, CallTypes, SweepTypes, Placed, Locked, Places, NoSweep
<1>5. \A c \in Calls : ~ UnderWay(c) /\ copy[c] = None /\ before[c] = None /\ held[c] = {}
      /\ sweep[c].shop = "?" /\ sweep[c].users = "?"
  BY DEF Init, UnderWay, NoSweep
<1>6. StockBalanced
  <2>1. ASSUME NEW p \in Products, product[p] # None, NEW i \in DOMAIN product[p].variations
        PROVE  product[p].variations[i].stock = shelf[p][product[p].variations[i].sku]
    <3>1. Good(product[p])
      BY <1>1, <2>1
    <3>2. product[p].variations[i].sku \in Skus
      BY <2>1, <3>1, DocShape DEF Good, Shape
    <3>3. product[p].variations[i].sku \in SkusOf(product[p]) /\ IndexOf(product[p], product[p].variations[i].sku) = i
      BY <2>1, <3>1, IndexUnique
    <3>4. \A s \in Skus : shelf[p][s] = IF product[p] # None /\ s \in SkusOf(product[p])
                                          THEN product[p].variations[IndexOf(product[p], s)].stock ELSE 0
      BY DEF Init
    <3> QED
      BY <2>1, <3>2, <3>3, <3>4
  <2> QED
    BY <2>1 DEF StockBalanced
<1>7. ImagesThere
  <2>1. ASSUME NEW u \in Uses PROVE u[1] \in library
    <3>1. PICK i \in Images, h \in Products \cup {UsersHold} : u = <<i, h>>
      BY UsesAre
    <3>2. CASE h \in Products
      BY <2>1, <3>1, <3>2, UsesAre, ProductsAssumption DEF Init
    <3>3. CASE h = UsersHold
      BY <2>1, <3>1, <3>3, UsesAre, ProductsAssumption DEF Init
    <3> QED
      BY <3>1, <3>2, <3>3
  <2> QED
    BY <2>1 DEF ImagesThere
<1>8. Copies /\ StockCopied /\ Mixed /\ Resolved
  BY <1>5 DEF Copies, StockCopied, Mixed, Sweeps, Resolved
<1>9. HeldSound /\ OnItsOwn
  BY <1>5 DEF HeldSound, OnItsOwn
<1> QED
  BY <1>3, <1>4, <1>6, <1>7, <1>8, <1>9 DEF Inv, Base

LEMMA InvStep ==
  ASSUME Inv, NEW c \in Calls, (\E r \in Menu : Starts(c, r)) \/ Steps(c), Remember
  PROVE  Inv'
<1>1. Base /\ StockBalanced /\ StockCopied /\ Mixed /\ ImagesThere /\ Resolved /\ HeldSound /\ OnItsOwn
  BY DEF Inv
<1>2. Base'
  BY <1>1, BaseStep
<1>3. StockBalanced' /\ StockCopied'
  BY <1>1, StockStep
<1>4. Mixed' /\ (mixed => mixed')
  BY MixedStep
<1>5. ImagesThere'
  BY <1>1, <1>4, ImagesThereStep
<1>6. Resolved'
  BY <1>1, <1>4, ResolvedStep
<1>7. HeldSound'
  BY <1>1, HeldStep
<1>8. OnItsOwn'
  BY <1>1, OwnStep
<1> QED
  BY <1>2, <1>3, <1>4, <1>5, <1>6, <1>7, <1>8 DEF Inv

LEMMA InvKept ==
  ASSUME Inv, [Next]_vars
  PROVE  Inv'
<1>1. CASE (\E c \in Calls : (\E r \in Menu : Starts(c, r)) \/ Steps(c)) /\ Remember
  BY <1>1, InvStep
<1>2. CASE UNCHANGED vars
  <2> USE <1>2 DEF vars, docs, progress, history, stockHistory
  <2>1. Uses' = Uses /\ \A c : (UnderWay(c)' <=> UnderWay(c)) /\ \A k : (Is(c, k)' <=> Is(c, k))
    BY DEF Uses, UnderWay, Is
  <2>2. Base'
    <3>1. DocTypes' /\ CallTypes' /\ SweepTypes' /\ Placed' /\ Locked'
      BY DEF Inv, Base, DocTypes, CallTypes, SweepTypes, Placed, Locked
    <3>2. Copies'
      BY <2>1 DEF Inv, Base, Copies, Carries
    <3> QED
      BY <3>1, <3>2 DEF Base
  <2>3. StockBalanced' /\ Mixed' /\ ImagesThere'
    BY <2>1 DEF Inv, StockBalanced, Mixed, Sweeps, ImagesThere
  <2>4. StockCopied'
    BY <2>1 DEF Inv, StockCopied
  <2>5. Resolved'
    BY <2>1 DEF Inv, Resolved, UsedBy
  <2>6. HeldSound'
    BY <2>1 DEF Inv, HeldSound
  <2>7. OnItsOwn'
    <3>1. \A c : Swept(c)' <=> Swept(c)
      BY <2>1 DEF Swept, UsedBy
    <3> QED
      BY <2>1, <3>1 DEF Inv, OnItsOwn
  <2> QED
    BY <2>2, <2>3, <2>4, <2>5, <2>6, <2>7 DEF Inv
<1> QED
  BY <1>1, <1>2 DEF Next, Quiet

(* The invariant that the others follow from, kept by every step of every  *)
(* call: what is written is a product with one variation for a sku, copies *)
(* agree with the shelf and the library until the race and the overlap.    *)
THEOREM ProductsInductive == Spec => []Inv
<1>1. Init => Inv
  BY InitInv
<1>2. Inv /\ [Next]_vars => Inv'
  BY InvKept
<1> QED
  BY <1>1, <1>2, PTL DEF Spec

(* A sale or the staff's figure is lost only in the one race, however many *)
(* writes of whole products, deletions, sales, failures and removals of    *)
(* images interleave (updateProductPutMethod, deleteProduct, createOrder). *)
THEOREM StockIsBalanced == Spec => []StockBalanced
<1>1. Inv => StockBalanced
  BY DEF Inv
<1> QED
  BY <1>1, ProductsInductive, PTL

(* Products and avatars refer to images that exist unless a removal of     *)
(* unused images (removeUnusedImage) overlapped with another call or a     *)
(* query of it failed.                                                     *)
THEOREM ImagesAreThere == Spec => []ImagesThere
<1>1. Inv => ImagesThere
  BY DEF Inv
<1> QED
  BY <1>1, ProductsInductive, PTL

(* removeUnusedImage deletes no image in a use that has lasted since it    *)
(* began, whatever is written meanwhile, unless a query for it failed.     *)
THEOREM UsedImagesStay == Spec => UsedStays
<1>1. Inv /\ [Next]_vars =>
        [\A i \in library \ library' :
           \E c \in Calls : sweep[c].image = i /\ (unanswered \/ \A u \in held[c] : u[1] # i)]_vars
  <2> SUFFICES ASSUME Inv, [Next]_vars, NEW i \in library \ library'
               PROVE  \E c \in Calls : sweep[c].image = i /\ (unanswered \/ \A u \in held[c] : u[1] # i)
    OBVIOUS
  <2>1. PICK c \in Calls : (\E r \in Menu : Starts(c, r)) \/ Steps(c)
    BY DEF Next, Quiet, vars, docs
  <2> QED
    BY <2>1, UsedStaysStep DEF Inv
<1> QED
  BY <1>1, ProductsInductive, PTL DEF Spec, UsedStays

(* A call that ran alone has done exactly what it was asked: the staff's   *)
(* writes of whole products, the deletions, the sales, the uploads and the *)
(* removal of unused images.                                               *)
THEOREM AloneIsExact == Spec => AloneMeansExact
<1>1. Inv /\ [Next]_vars =>
        [\A c \in Calls :
           UnderWay(c) /\ at'[c] = "done" /\ before[c] # None => Exact(request[c], before[c])]_vars
  <2> SUFFICES ASSUME Inv, Next, NEW c \in Calls, UnderWay(c), at'[c] = "done", before[c] # None
               PROVE  Exact(request[c], before[c])
    OBVIOUS
  <2>1. at'[c] # at[c]
    BY DEF UnderWay
  <2>2. PICK d \in Calls : (\E r \in Menu : Starts(d, r)) \/ Steps(d)
    BY <2>1 DEF Next, Quiet, vars
  <2>3. d = c
    BY <2>1, <2>2, OthersStay DEF Inv, Others
  <2> QED
    BY <2>2, <2>3, ExactStep DEF Inv
<1> QED
  BY <1>1, ProductsInductive, PTL DEF Spec, AloneMeansExact

(* What is left of the types.                                              *)
RestTypes ==
  /\ category \subseteq Labels /\ attributes \subseteq Labels
  /\ held \in [Calls -> SUBSET (Images \X (Products \cup {UsersHold}))]
  /\ mixed \in BOOLEAN /\ unanswered \in BOOLEAN /\ raced \in BOOLEAN

LEMMA LabelShape ==
  ASSUME NEW r \in Requests
  PROVE  /\ r.kind = "category" => Required(r) \subseteq Labels
         /\ r.kind = "label" => r.label \in Labels
  BY ProductsAssumption DEF Requests, Required

LEMMA RestStep ==
  ASSUME Base, RestTypes, NEW c \in Calls, (\E r \in Menu : Starts(c, r)) \/ Steps(c)
  PROVE  /\ category' \subseteq Labels /\ attributes' \subseteq Labels
         /\ unanswered' \in BOOLEAN /\ raced' \in BOOLEAN
<1>1. ASSUME NEW r \in Menu, StartCreate(c, r) \/ StartPut(c, r) \/ StartDelete(c, r) \/ StartSale(c, r)
             \/ StartUpload(c, r) \/ StartAvatar(c, r) \/ StartCategory(c, r) \/ StartLabel(c, r) \/ StartSweep(c, r)
      PROVE  /\ category' \subseteq Labels /\ attributes' \subseteq Labels
         /\ unanswered' \in BOOLEAN /\ raced' \in BOOLEAN
  BY <1>1 DEF StartCreate, StartPut, StartDelete, StartSale, StartUpload, StartAvatar, StartCategory, StartLabel,
     StartSweep, RestTypes, docs, stockHistory
<1>2. CASE CheckSku(c) \/ ResolveImages(c) \/ CheckAttributes(c) \/ LastPage(c)
  BY <1>2 DEF CheckSku, ResolveImages, CheckAttributes, LastPage, RestTypes, docs, stockHistory
<1>3. CASE WriteWhole(c)
  BY <1>3 DEF WriteWhole, Counts, RestTypes, docs, stockHistory
<1>4. CASE Commit(c)
  BY <1>4 DEF Commit, RestTypes, docs, stockHistory
<1>5. CASE WriteDeletion(c) \/ WriteUpload(c) \/ WriteAvatar(c)
  BY <1>5 DEF WriteDeletion, WriteUpload, WriteAvatar, RestTypes, docs, stockHistory
<1>6. CASE LockSale(c) \/ OpenTransaction(c) \/ ReadStock(c) \/ Conflict(c) \/ Fail(c)
  BY <1>6 DEF LockSale, OpenTransaction, ReadStock, Conflict, Fail, RestTypes, docs, stockHistory
<1>7. CASE WriteCategory(c)
  <2>1. request[c].kind = "category" /\ request[c] \in Requests
    BY <1>7 DEF WriteCategory, Is, Goes, Base, CallTypes, Placed
  <2> QED
    BY <1>7, <2>1, LabelShape DEF WriteCategory, RestTypes, stockHistory
<1>8. CASE WriteLabel(c)
  <2>1. request[c].kind = "label" /\ request[c] \in Requests
    BY <1>8 DEF WriteLabel, Is, Goes, Base, CallTypes, Placed
  <2> QED
    BY <1>8, <2>1, LabelShape DEF WriteLabel, RestTypes, stockHistory
<1>9. CASE ListPage(c)
  BY <1>9 DEF ListPage, RestTypes, docs, stockHistory
<1>10. CASE NextImage(c)
  BY <1>10 DEF NextImage, RestTypes, docs, stockHistory
<1>11. CASE AskProducts(c)
  <2>1. UNCHANGED <<category, attributes, raced>>
    BY <1>11 DEF AskProducts, docs, stockHistory
  <2>2. unanswered' = unanswered \/ unanswered' = TRUE
    BY <1>11, Zenon DEF AskProducts
  <2> QED
    BY <2>1, <2>2 DEF RestTypes
<1>12. CASE AskUsers(c)
  BY <1>12 DEF AskUsers, RestTypes, docs, stockHistory
<1>13. CASE RemoveOrKeep(c)
  BY <1>13 DEF RemoveOrKeep, RestTypes, docs, stockHistory
<1> QED
  BY <1>1, <1>2, <1>3, <1>4, <1>5, <1>6, <1>7, <1>8, <1>9, <1>10, <1>11, <1>12, <1>13 DEF Starts, Steps

LEMMA RestKept ==
  ASSUME Inv, RestTypes, [Next]_vars
  PROVE  RestTypes'
<1>1. CASE UNCHANGED vars
  BY <1>1 DEF RestTypes, vars, docs, history, stockHistory
<1>2. ASSUME Remember, NEW c \in Calls, (\E r \in Menu : Starts(c, r)) \/ Steps(c)
      PROVE  RestTypes'
  <2>1. Uses' \subseteq Images \X (Products \cup {UsersHold})
    BY UsesWillBe
  <2>2. held' \in [Calls -> SUBSET (Images \X (Products \cup {UsersHold}))]
    BY <1>2, <2>1 DEF Remember, RestTypes
  <2>3. mixed' \in BOOLEAN
    BY <1>2 DEF Remember, RestTypes
  <2> QED
    BY <1>2, <2>2, <2>3, RestStep DEF Inv, RestTypes
<1> QED
  BY <1>1, <1>2 DEF Next, Quiet

(* Every variable keeps its type, whatever the calls ask for.              *)
THEOREM ProductTypes == Spec => []TypeOK
<1>1. Init => RestTypes
  BY ProductsAssumption DEF Init, RestTypes
<1>2. Inv /\ RestTypes /\ [Next]_vars => RestTypes'
  BY RestKept
<1>3. Inv /\ RestTypes => TypeOK
  BY DEF Inv, Base, DocTypes, CallTypes, SweepTypes, RestTypes, TypeOK
<1> QED
  BY <1>1, <1>2, <1>3, ProductsInductive, PTL DEF Spec

=============================================================================
