----------------------------- MODULE ProductsMnt -----------------------------
(***************************************************************************)
(* What the staff do to the products (ProductsMntService, with the         *)
(* categories, attributes and images they rest on) beside the sales of     *)
(* CheckoutService and the daily removal of unused images                  *)
(* (ImageTaskService).  The staff's handlers write whole products from     *)
(* copies, without the order_create lock the sales hold.                   *)
(*                                                                         *)
(* A label is the key of an attribute; a sku fixes the labels of its       *)
(* variation.  Values, prices, names, texts and all statuses except        *)
(* Deleted are left out.  One category and one user's avatar stand for     *)
(* all.  Checkout models the sale in detail: here it is a call that holds  *)
(* its keys for as long as it runs and writes when its transaction         *)
(* commits.  Attributes are only flagged as deleted, which no query        *)
(* notices, so they stay.                                                  *)
(***************************************************************************)
EXTENDS Naturals, Sequences, FiniteSets, Redlock

CONSTANTS
  Calls, Products, Skus, Labels, Images,
  SkuLabels,      \* the labels of a sku's attributes
  UnitAdded,      \* pairs of skus: the second one is the first one with units it did not have
  MustHave,       \* MUST_HAVE_ATTRIBUTES: height, weight, length and width
  MaxStock,       \* the most the staff may enter
  Menu,           \* the requests calls may carry
  FirstProducts,  \* the collection in the beginning
  FirstLibrary,   \* the images Cloudinary has then
  FirstCategory,  \* the labels the category requires then
  FirstLabels     \* the attributes there are then

Variations == [sku : Skus, stock : 0..MaxStock, gone : BOOLEAN]
Docs == [live : BOOLEAN, general : SUBSET Labels, variations : Seq(Variations), images : SUBSET Images]

(* UpdateProductRequestDTO asks for a whole product, and so does           *)
(* CreateProductRequestDTO.  A patch of the category may be without labels.*)
Requests ==
  [kind : {"create", "put"}, p : Products, doc : Docs]
    \cup [kind : {"delete"}, p : Products]
    \cup [kind : {"drop", "sale"}, p : Products, sku : Skus]
    \cup [kind : {"avatar", "upload"}, image : Images]
    \cup [kind : {"sweep"}]
    \cup [kind : {"category"}, given : BOOLEAN, labels : SUBSET Labels]
    \cup [kind : {"label"}, label : Labels]

NoRequest == [kind |-> "-"]

DistinctSkus(d) ==
  \A i, j \in DOMAIN d.variations : d.variations[i].sku = d.variations[j].sku => i = j

ASSUME ProductsAssumption ==
  /\ SkuLabels \in [Skus -> SUBSET Labels]
  /\ \A u \in UnitAdded : u \in Skus \X Skus /\ SkuLabels[u[1]] = SkuLabels[u[2]]
  /\ MustHave \subseteq Labels
  /\ MaxStock \in Nat
  /\ Menu \subseteq Requests
  /\ FirstProducts \in [Products -> Docs \cup {None}]
  /\ FirstCategory \subseteq Labels /\ FirstLabels \subseteq Labels /\ FirstLibrary \subseteq Images
  /\ \A p \in Products : FirstProducts[p] # None =>
       FirstProducts[p].images \subseteq FirstLibrary /\ DistinctSkus(FirstProducts[p])
  /\ None \notin Docs /\ None \notin Images /\ None \notin Calls /\ None \notin Products

VARIABLES
  product,     \* the products collection
  category,    \* requireAttributes of the category
  attributes,  \* the labels that have an attribute document
  library,     \* the images Cloudinary has
  avatar,      \* the image of the user's avatar, or None
  lock,        \* order_create:<product>
  at,          \* where a call stands
  request,     \* what it was asked
  copy,        \* the product it will write back, or None
  txn,         \* the transaction of a sale
  sweep,       \* how far a removal of unused images has come
  before,      \* history: the data when a call began that ran alone so far, or None
  held,        \* history: uses of images that have lasted as long as a sweep
  mixed,       \* history: a sweep and another call have been under way together
  unanswered,  \* history: a query for a use of an image has failed
  shelf,       \* history: stock by the staff's figures and the sales since
  raced        \* history: a copy was outdated by a change of the stock

docs == <<product, category, attributes, library, avatar>>
progress == <<lock, txn, sweep>>
history == <<before, held, mixed>>
stockHistory == <<shelf, raced>>
vars == <<docs, progress, at, request, copy, history, unanswered, stockHistory>>

Places == {"idle", "category", "sku", "images", "lock", "run", "write", "page", "image", "done", "failed"}
NoSweep == [listed |-> {}, page |-> {}, image |-> None, shop |-> "?", users |-> "?"]
UsersHold == None     \* the users collection as a holder of images

TypeOK ==
  /\ product \in [Products -> Docs \cup {None}]
  /\ category \subseteq Labels /\ attributes \subseteq Labels
  /\ library \subseteq Images /\ avatar \in Images \cup {None}
  /\ lock \in [Products -> Calls \cup {None}]
  /\ at \in [Calls -> Places]
  /\ request \in [Calls -> Requests \cup {NoRequest}]
  /\ copy \in [Calls -> Docs \cup {None}]
  /\ txn \in [Calls -> {"none", "clean", "stale"}]
  /\ sweep \in [Calls -> [listed : SUBSET Images, page : SUBSET Images, image : Images \cup {None},
                          shop : {"?", "no", "yes"}, users : {"?", "no", "yes"}]]
  /\ held \in [Calls -> SUBSET (Images \X (Products \cup {UsersHold}))]
  /\ {mixed, unanswered, raced} \subseteq BOOLEAN

-----------------------------------------------------------------------------
(* getProduct by default: the product and one of its variations are not    *)
(* deleted.  Its filter on the variations replaces the caller's.           *)
Active(d) ==
  /\ d # None
  /\ d.live
  /\ \E i \in DOMAIN d.variations : ~ d.variations[i].gone

SkusOf(d) == {d.variations[i].sku : i \in DOMAIN d.variations}

(* validProductAttributes builds its set of labels of the variations from  *)
(* the first one only; a label that a later one adds is looked up in vain. *)
Given(d) == d.general \cup SkuLabels[d.variations[1].sku]

Valid(d) ==
  /\ SkuLabels[d.variations[1].sku] \cap d.general = {}
  /\ category \subseteq Given(d)
  /\ Given(d) \subseteq attributes
  /\ \A i \in DOMAIN d.variations : SkuLabels[d.variations[i].sku] \subseteq Given(d)
  /\ DistinctSkus(d)

(* allowFieldsToUpdateProduct: variations may be added and removed at the  *)
(* end of the array; the others keep their attributes, but an attribute    *)
(* without a unit may be given one, which is part of the sku.              *)
Allowed(old, new) ==
  \A i \in DOMAIN old.variations \cap DOMAIN new.variations :
    LET was == old.variations[i].sku is == new.variations[i].sku
    IN  is = was \/ <<was, is>> \in UnitAdded

Mutant_Forgotten(d, sku) == d
WithoutSku(d, sku) ==
  [d EXCEPT !.variations =
     [i \in DOMAIN @ |-> IF @[i].sku = sku THEN [@[i] EXCEPT !.gone = TRUE] ELSE @[i]]]

IndexOf(d, sku) == CHOOSE i \in DOMAIN d.variations :
  d.variations[i].sku = sku /\ \A j \in 1..i-1 : d.variations[j].sku # sku
LessOne(d, sku) == [d EXCEPT !.variations[IndexOf(d, sku)].stock = @ - 1]

(* The uses of images: isImageInUse of the products and of the users.      *)
Uses ==
  {u \in Images \X Products : product[u[2]] # None /\ u[1] \in product[u[2]].images}
    \cup ({avatar} \cap Images) \X {UsersHold}

-----------------------------------------------------------------------------
UnderWay(c) == at[c] \notin {"idle", "done", "failed"}
Ends == {"done", "failed"}

Begin(c, r, place) ==
  /\ request[c] = NoRequest
  /\ request' = [request EXCEPT ![c] = r]
  /\ at' = [at EXCEPT ![c] = place]

Goes(c, from, to) ==
  /\ at[c] = from
  /\ at' = [at EXCEPT ![c] = to]
  /\ UNCHANGED request

Is(c, kinds) == request[c].kind \in kinds

(* createProduct: the attributes, the sku, the images, the insertion.  The *)
(* filter of the skus is lost in getProduct, so the first product that is  *)
(* active is compared, whichever the collection yields.                    *)
StartCreate(c, r) ==
  /\ r.kind = "create" /\ product[r.p] = None
  /\ \A d \in Calls : ~ (request[d].kind = "create" /\ request[d].p = r.p)   \* a new _id
  /\ Begin(c, r, IF Valid(r.doc) THEN "sku" ELSE "failed")
  /\ copy' = [copy EXCEPT ![c] = r.doc]
  /\ UNCHANGED <<docs, progress, unanswered, stockHistory>>

CheckSku(c) ==
  /\ LET actives == {p \in Products : Active(product[p])} IN
       \/ actives = {} /\ Goes(c, "sku", "images")
       \/ \E p \in actives :
            Goes(c, "sku", IF SkusOf(product[p]) \cap SkusOf(copy[c]) = {} THEN "images" ELSE "failed")
  /\ UNCHANGED <<docs, progress, copy, unanswered, stockHistory>>

(* updateProductPutMethod: the old product, the images, the attributes,    *)
(* the write.                                                              *)
StartPut(c, r) ==
  /\ r.kind = "put"
  /\ Begin(c, r, IF Active(product[r.p]) /\ Allowed(product[r.p], r.doc) THEN "images" ELSE "failed")
  /\ copy' = [copy EXCEPT ![c] = r.doc]
  /\ UNCHANGED <<docs, progress, unanswered, stockHistory>>

Mutant_ImagesUnresolved(c) ==
  /\ Goes(c, "images", IF Is(c, {"put"}) THEN "category" ELSE "write")
  /\ UNCHANGED <<docs, progress, copy, unanswered, stockHistory>>
ResolveImages(c) ==
  /\ Goes(c, "images", IF copy[c].images \subseteq library
                         THEN IF Is(c, {"put"}) THEN "category" ELSE "write"
                         ELSE "failed")
  /\ UNCHANGED <<docs, progress, copy, unanswered, stockHistory>>

CheckAttributes(c) ==
  /\ Goes(c, "category", IF Valid(copy[c]) THEN "write" ELSE "failed")
  /\ UNCHANGED <<docs, progress, copy, unanswered, stockHistory>>

(* deleteProduct and deleteProductVariation read the product first.        *)
StartDelete(c, r) ==
  /\ r.kind \in {"delete", "drop"}
  /\ Begin(c, r, IF Active(product[r.p]) THEN "write" ELSE "failed")
  /\ copy' = [copy EXCEPT ![c] =
       IF r.kind = "drop" /\ Active(product[r.p]) THEN WithoutSku(product[r.p], r.sku) ELSE None]
  /\ UNCHANGED <<docs, progress, unanswered, stockHistory>>

(* A write of a product that is not part of a transaction outdates the     *)
(* snapshots of the transactions that are open.                            *)
Outdated(c, p) ==
  [d \in Calls |-> IF d # c /\ request[d].kind = "sale" /\ request[d].p = p /\ txn[d] = "clean"
                     THEN "stale" ELSE txn[d]]

Store(p, d) == product' = [product EXCEPT ![p] = d]

(* The stock changes between another call's reading of the product and its *)
(* writing it back: a deletion of a variation, or a sale that has not      *)
(* opened its transaction yet.  MongoDB refuses the other sales.           *)
Disturbs(c, p) ==
  \E d \in Calls \ {c} :
    /\ request[d].kind \in {"drop", "sale"} /\ request[d].p = p
    /\ copy[d] # None
    /\ at[d] = "write" \/ (at[d] = "run" /\ txn[d] = "none")

Counts(c, p, d) ==
  /\ raced' = (raced \/ Disturbs(c, p))
  /\ shelf' = IF raced' THEN [q \in Products |-> [s \in Skus |-> 0]]
              ELSE [shelf EXCEPT ![p] =
                      [s \in Skus |-> IF s \in SkusOf(d) THEN d.variations[IndexOf(d, s)].stock ELSE 0]]

WriteWhole(c) ==
  /\ Is(c, {"create", "put"})
  /\ Goes(c, "write", "done")
  /\ Store(request[c].p, copy[c])
  /\ Counts(c, request[c].p, copy[c])
  /\ txn' = Outdated(c, request[c].p)
  /\ copy' = [copy EXCEPT ![c] = None]
  /\ UNCHANGED <<category, attributes, library, avatar, lock, sweep, unanswered>>

WriteDeletion(c) ==
  /\ Is(c, {"delete", "drop"})
  /\ Goes(c, "write", "done")
  /\ Store(request[c].p,
           IF Is(c, {"delete"}) THEN [product[request[c].p] EXCEPT !.live = FALSE] ELSE copy[c])
  /\ txn' = Outdated(c, request[c].p)
  /\ copy' = [copy EXCEPT ![c] = None]
  /\ UNCHANGED <<category, attributes, library, avatar, lock, sweep, unanswered, stockHistory>>

-----------------------------------------------------------------------------
(* createOrder for one unit: the review, the lock, and then the first      *)
(* operation of the transaction beside the reading of the stock.           *)
Purchasable(d, sku) ==
  /\ Active(d)
  /\ sku \in SkusOf(d)
  /\ LET v == d.variations[IndexOf(d, sku)] IN ~ v.gone /\ v.stock > 0
  /\ MustHave \subseteq d.general        \* getDimensions

StartSale(c, r) ==
  /\ r.kind = "sale"
  /\ Begin(c, r, IF Purchasable(product[r.p], r.sku) THEN "lock" ELSE "failed")
  /\ UNCHANGED <<docs, progress, copy, unanswered, stockHistory>>

LockSale(c) ==
  /\ at[c] = "lock"
  /\ \/ /\ Free(lock, {request[c].p})
        /\ Goes(c, "lock", "run")
        /\ lock' = Acquire(lock, {request[c].p}, c)
     \/ /\ ~ Free(lock, {request[c].p})
        /\ Goes(c, "lock", "failed")
        /\ UNCHANGED lock
  /\ UNCHANGED <<docs, txn, sweep, copy, unanswered, stockHistory>>

OpenTransaction(c) ==
  /\ at[c] = "run" /\ txn[c] = "none"
  /\ txn' = [txn EXCEPT ![c] = "clean"]
  /\ UNCHANGED <<docs, lock, sweep, at, request, copy, unanswered, stockHistory>>

Leaves(c, end) ==
  /\ at' = [at EXCEPT ![c] = end]
  /\ lock' = Release(lock, DOMAIN lock, c)
  /\ txn' = [txn EXCEPT ![c] = "none"]
  /\ copy' = [copy EXCEPT ![c] = None]
  /\ UNCHANGED request

InStock(d, sku) ==
  Active(d) /\ sku \in SkusOf(d) /\ d.variations[IndexOf(d, sku)].stock > 0

ReadStock(c) ==
  /\ at[c] = "run" /\ copy[c] = None
  /\ LET d == product[request[c].p] IN
       IF InStock(d, request[c].sku)
         THEN copy' = [copy EXCEPT ![c] = LessOne(d, request[c].sku)] /\ UNCHANGED <<lock, txn, at, request>>
         ELSE Leaves(c, "failed")
  /\ UNCHANGED <<docs, sweep, unanswered, stockHistory>>

Mutant_StaleCommit(c) ==
  /\ at[c] = "run" /\ copy[c] # None /\ txn[c] # "none"
  /\ Leaves(c, "done")
  /\ Store(request[c].p, copy[c])
  /\ raced' = (raced \/ Disturbs(c, request[c].p))
  /\ shelf' = [shelf EXCEPT ![request[c].p][request[c].sku] = IF raced' THEN 0 ELSE @ - 1]
  /\ UNCHANGED <<category, attributes, library, avatar, sweep, unanswered>>
Commit(c) ==
  /\ at[c] = "run" /\ copy[c] # None /\ txn[c] = "clean"
  /\ Leaves(c, "done")
  /\ Store(request[c].p, copy[c])
  /\ raced' = (raced \/ Disturbs(c, request[c].p))
  /\ shelf' = IF raced' THEN [q \in Products |-> [s \in Skus |-> 0]]
              ELSE [shelf EXCEPT ![request[c].p][request[c].sku] = @ - 1]
  /\ UNCHANGED <<category, attributes, library, avatar, sweep, unanswered>>

Conflict(c) ==
  /\ at[c] = "run" /\ copy[c] # None /\ txn[c] = "stale"
  /\ Leaves(c, "failed")
  /\ UNCHANGED <<docs, sweep, unanswered, stockHistory>>

-----------------------------------------------------------------------------
(* uploadSingleImage and uploadArrayImage fetch the file from the gateway  *)
(* and hand it to Cloudinary under a public id of its own.                 *)
StartUpload(c, r) ==
  /\ r.kind = "upload"
  /\ Begin(c, r, "write")
  /\ UNCHANGED <<docs, progress, copy, unanswered, stockHistory>>

WriteUpload(c) ==
  /\ Is(c, {"upload"}) /\ request[c].image \notin library
  /\ Goes(c, "write", "done")
  /\ library' = library \cup {request[c].image}
  /\ UNCHANGED <<product, category, attributes, avatar, progress, copy, unanswered, stockHistory>>

(* updateUserInfo with an avatar: the image must be there.                 *)
StartAvatar(c, r) ==
  /\ r.kind = "avatar"
  /\ Begin(c, r, IF r.image \in library THEN "write" ELSE "failed")
  /\ UNCHANGED <<docs, progress, copy, unanswered, stockHistory>>

WriteAvatar(c) ==
  /\ Is(c, {"avatar"})
  /\ Goes(c, "write", "done")
  /\ avatar' = request[c].image
  /\ UNCHANGED <<product, category, attributes, library, progress, copy, unanswered, stockHistory>>

(* createCategory and updateCategory: with labels, all of them and those   *)
(* every category must have are looked up; without, nothing is required.   *)
Required(r) == IF r.given THEN r.labels \cup MustHave ELSE {}

StartCategory(c, r) ==
  /\ r.kind = "category"
  /\ Begin(c, r, IF Required(r) \subseteq attributes THEN "write" ELSE "failed")
  /\ UNCHANGED <<docs, progress, copy, unanswered, stockHistory>>

WriteCategory(c) ==
  /\ Is(c, {"category"})
  /\ Goes(c, "write", "done")
  /\ category' = Required(request[c])
  /\ UNCHANGED <<product, attributes, library, avatar, progress, copy, unanswered, stockHistory>>

(* createAttribute: the label is looked for first, and the unique index    *)
(* decides in the end.                                                     *)
StartLabel(c, r) ==
  /\ r.kind = "label"
  /\ Begin(c, r, IF r.label \in attributes THEN "failed" ELSE "write")
  /\ UNCHANGED <<docs, progress, copy, unanswered, stockHistory>>

WriteLabel(c) ==
  /\ Is(c, {"label"})
  /\ Goes(c, "write", IF request[c].label \in attributes THEN "failed" ELSE "done")
  /\ attributes' = attributes \cup {request[c].label}
  /\ UNCHANGED <<product, category, library, avatar, progress, copy, unanswered, stockHistory>>

-----------------------------------------------------------------------------
(* removeUnusedImage: a page of the folder, one image after the other, the *)
(* next page.                                                              *)
StartSweep(c, r) ==
  /\ r.kind = "sweep"
  /\ Begin(c, r, "page")
  /\ UNCHANGED <<docs, progress, copy, unanswered, stockHistory>>

ListPage(c) ==
  /\ \E page \in (SUBSET (library \ sweep[c].listed)) \ {{}} :
       sweep' = [sweep EXCEPT ![c].listed = @ \cup page, ![c].page = page]
  /\ Goes(c, "page", "image")
  /\ UNCHANGED <<docs, lock, txn, copy, unanswered, stockHistory>>

LastPage(c) ==
  /\ library \subseteq sweep[c].listed
  /\ Goes(c, "page", "done")
  /\ UNCHANGED <<docs, progress, copy, unanswered, stockHistory>>

NextImage(c) ==
  /\ at[c] = "image" /\ sweep[c].image = None
  /\ IF sweep[c].page = {} THEN Goes(c, "image", "page") /\ UNCHANGED sweep
     ELSE /\ \E i \in sweep[c].page :
               sweep' = [sweep EXCEPT ![c].page = @ \ {i}, ![c].image = i]
          /\ UNCHANGED <<at, request>>
  /\ UNCHANGED <<docs, lock, txn, copy, unanswered, stockHistory>>

Answer(used) == IF used THEN "yes" ELSE "no"

(* isImageInUse of the products is false also when the query fails; that   *)
(* of the users throws, which ends the removal (Fail).                     *)
AskProducts(c) ==
  /\ at[c] = "image" /\ sweep[c].image # None /\ sweep[c].shop = "?"
  /\ \/ /\ sweep' = [sweep EXCEPT ![c].shop = Answer(\E p \in Products : <<sweep[c].image, p>> \in Uses)]
        /\ UNCHANGED unanswered
     \/ /\ sweep' = [sweep EXCEPT ![c].shop = "no"]
        /\ unanswered' = TRUE
  /\ UNCHANGED <<docs, lock, txn, at, request, copy, stockHistory>>

AskUsers(c) ==
  /\ at[c] = "image" /\ sweep[c].image # None /\ sweep[c].users = "?"
  /\ sweep' = [sweep EXCEPT ![c].users = Answer(avatar = sweep[c].image)]
  /\ UNCHANGED <<docs, lock, txn, at, request, copy, unanswered, stockHistory>>

Mutant_EitherUnused(c) == "no" \in {sweep[c].shop, sweep[c].users}
Unused(c) == {sweep[c].shop, sweep[c].users} = {"no"}

RemoveOrKeep(c) ==
  /\ at[c] = "image" /\ "?" \notin {sweep[c].shop, sweep[c].users}
  /\ library' = IF Unused(c) THEN library \ {sweep[c].image} ELSE library
  /\ sweep' = [sweep EXCEPT ![c] = [@ EXCEPT !.image = None, !.shop = "?", !.users = "?"]]
  /\ UNCHANGED <<product, category, attributes, avatar, lock, txn, at, request, copy, unanswered, stockHistory>>

-----------------------------------------------------------------------------
(* Any await may throw; a sale releases its keys in the end.               *)
Fail(c) ==
  /\ UnderWay(c)
  /\ Leaves(c, "failed")
  /\ UNCHANGED <<docs, sweep, unanswered, stockHistory>>

Remember ==
  /\ before' = [c \in Calls |->
       IF ~ UnderWay(c)' \/ \E d \in Calls \ {c} : UnderWay(d)' THEN None
       ELSE IF UnderWay(c) THEN before[c]
       ELSE [product |-> product, library |-> library, uses |-> Uses]]
  /\ held' = [c \in Calls |->
       IF ~ Is(c, {"sweep"})' \/ ~ UnderWay(c)' THEN {}
       ELSE IF at[c] = "idle" THEN Uses' ELSE held[c] \cap Uses']
  /\ mixed' = (mixed \/ \E c \in Calls : Is(c, {"sweep"})' /\ UnderWay(c)'
                                          /\ \E d \in Calls \ {c} : UnderWay(d)')

Init ==
  /\ product = FirstProducts
  /\ category = FirstCategory
  /\ attributes = FirstLabels
  /\ library = FirstLibrary
  /\ avatar = None
  /\ lock = [p \in Products |-> None]
  /\ at = [c \in Calls |-> "idle"]
  /\ request = [c \in Calls |-> NoRequest]
  /\ copy = [c \in Calls |-> None]
  /\ txn = [c \in Calls |-> "none"]
  /\ sweep = [c \in Calls |-> NoSweep]
  /\ before = [c \in Calls |-> None]
  /\ held = [c \in Calls |-> {}]
  /\ mixed = FALSE /\ unanswered = FALSE /\ raced = FALSE
  /\ shelf = [p \in Products |-> [s \in Skus |->
       IF product[p] # None /\ s \in SkusOf(product[p])
         THEN product[p].variations[IndexOf(product[p], s)].stock ELSE 0]]

Starts(c, r) ==
  \/ StartCreate(c, r) \/ StartPut(c, r) \/ StartDelete(c, r) \/ StartSale(c, r)
  \/ StartUpload(c, r) \/ StartAvatar(c, r) \/ StartCategory(c, r) \/ StartLabel(c, r) \/ StartSweep(c, r)

Steps(c) ==
  \/ CheckSku(c) \/ ResolveImages(c) \/ CheckAttributes(c) \/ WriteWhole(c) \/ WriteDeletion(c)
  \/ LockSale(c) \/ OpenTransaction(c) \/ ReadStock(c) \/ Commit(c) \/ Conflict(c)
  \/ WriteUpload(c) \/ WriteAvatar(c) \/ WriteCategory(c) \/ WriteLabel(c)
  \/ ListPage(c) \/ LastPage(c) \/ NextImage(c) \/ AskProducts(c) \/ AskUsers(c) \/ RemoveOrKeep(c)
  \/ Fail(c)

Quiet == (\A c \in Calls : at[c] \in Ends) /\ UNCHANGED vars

Next ==
  \/ (\E c \in Calls : (\E r \in Menu : Starts(c, r)) \/ Steps(c)) /\ Remember
  \/ Quiet

Spec == Init /\ [][Next]_vars

-----------------------------------------------------------------------------
(* What the request of a finished call has made of the data it found.      *)
Exact(r, old) ==
  \/ r.kind \in {"create", "put"} /\ product' = [old.product EXCEPT ![r.p] = r.doc]
  \/ r.kind = "delete" /\ product' = [old.product EXCEPT ![r.p].live = FALSE]
  \/ /\ r.kind \in {"drop", "sale"}
     /\ \A p \in Products \ {r.p} : product'[p] = old.product[p]
     /\ LET was == old.product[r.p] is == product'[r.p] IN
          /\ DOMAIN is.variations = DOMAIN was.variations
          /\ \A i \in DOMAIN is.variations :
               LET v == was.variations[i] hit == v.sku = r.sku IN
                 is.variations[i] = [v EXCEPT !.gone = @ \/ (hit /\ r.kind = "drop"),
                                              !.stock = IF hit /\ r.kind = "sale" THEN @ - 1 ELSE @]
          /\ is.images = was.images /\ is.general = was.general /\ is.live = was.live
  \/ /\ r.kind = "sweep"
     /\ unanswered \/ library' = {i \in old.library : \E u \in old.uses : u[1] = i}
     /\ product' = old.product
  \/ /\ r.kind \in {"avatar", "category", "label", "upload"}
     /\ product' = old.product
     /\ library' = old.library \cup (IF r.kind = "upload" THEN {r.image} ELSE {})

(* A call that runs alone does exactly what it was asked: the staff's      *)
(* writes of whole products are right as long as nobody is in between, and *)
(* a removal takes away all unused images and no others.                   *)
AloneMeansExact ==
  [][\A c \in Calls :
       UnderWay(c) /\ at'[c] = "done" /\ before[c] # None => Exact(request[c], before[c])]_vars

(* removeUnusedImage never deletes an image that one product or the avatar *)
(* has used ever since the removal began, whatever is written meanwhile;   *)
(* only a failing query for the products can bring that about.             *)
UsedStays ==
  [][\A i \in library \ library' :
       \E c \in Calls : sweep[c].image = i /\ (unanswered \/ \A u \in held[c] : u[1] # i)]_vars

(* Products and avatars refer to images that exist, unless a removal of    *)
(* unused images overlapped with another call or a query failed.           *)
ImagesThere == ~ mixed /\ ~ unanswered => \A u \in Uses : u[1] \in library

(* A sale or the staff's figure is lost only to a deletion of a variation  *)
(* or to a sale that read the stock before its transaction began; deleted  *)
(* products, conflicting sales, failures and image removals lose nothing.  *)
StockBalanced ==
  ~ raced => \A p \in Products : product[p] # None =>
    \A i \in DOMAIN product[p].variations :
      product[p].variations[i].stock = shelf[p][product[p].variations[i].sku]
=============================================================================
