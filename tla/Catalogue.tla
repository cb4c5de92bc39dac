------------------------------ MODULE Catalogue ------------------------------
(***************************************************************************)
(* What the staff of a website sells (pkg/services/store): products, the   *)
(* pages a buyer reads, in their order, and coupons.                       *)
(*                                                                         *)
(* A request reads without locks and checks, and writes later, a whole row *)
(* or the rows of all pages: two of them may overlap.  A request is late   *)
(* when another changed its product or coupon since it began, and stale    *)
(* when since it last read.  Left out: names, prices and descriptions, who *)
(* may ask, coupons of other websites, whose codes can't be taken, and     *)
(* changes of a coupon that say nothing of its products.                   *)
(***************************************************************************)
EXTENDS Naturals, FiniteSets, Functions

CONSTANTS
    ProductIDs, CouponIDs, Codes,
    ProductPageIDs,  \* 1, 2, ..: pages are named in the order in which they are made
    Managers,    \* requests that may be under way at a time
    MaxTexts,    \* bound: texts of pages that are saved
    NoTask, NoLeaf, NoCoupon

ASSUME CatalogueAssumption ==
    /\ ProductPageIDs \subseteq Nat /\ MaxTexts \in Nat
    /\ NoLeaf \notin [product : ProductIDs, position : Nat, text : Nat]

VARIABLES
    product,     \* product[p]: "none", "deleted", or the status of p
    leaf,        \* leaf[g]: a page of a product
    ordered,     \* products with an order
    coupon,      \* coupon[c]
    eligible,    \* eligible[c][p]: how often coupons_products says it of p
    task,        \* task[x]: a request
    written,     \* written[g]: how many texts were saved, the last of which is the text
    asked,       \* asked[c]: the products that c was saved with last
    misplaced,   \* products whose pages were placed by a stale request
    emptied,     \* products of which a late request deleted a page
    overwritten, \* pages that a stale request wrote
    mixed        \* coupons that a stale request wrote

leafVars   == <<leaf, written, misplaced, emptied, overwritten>>
couponVars == <<coupon, eligible, asked, mixed>>
catalogueVars == <<product, ordered, task, leafVars, couponVars>>

Statuses == {"draft", "active"}
Live == {p \in ProductIDs : product[p] \in Statuses}
\* leaf[g] and coupon[c], if they are there
ProductPage == [product : Live, position : Nat, text : Nat \ {0}]
Coupon == [code : Codes, archived : BOOLEAN]

PagesOf(p) == {g \in ProductPageIDs : leaf[g] # NoLeaf /\ leaf[g].product = p}
MayWrite == FoldFunction(LAMBDA n, m : n + m, 0, written) < MaxTexts
IsNewPage(g) == g = Cardinality({h \in ProductPageIDs : written[h] > 0}) + 1

\* SELECT ... ORDER BY position: what g's place is among P, the order of pages at
\* the same position being any that list gives.
Orders(P) == {list \in [P -> 0 .. Cardinality(P) - 1] :
                /\ IsInjective(list)
                /\ \A g, h \in P : leaf[g].position < leaf[h].position => list[g] < list[h]}

CatalogueInit ==
    /\ product = [p \in ProductIDs |-> "none"]
    /\ leaf = [g \in ProductPageIDs |-> NoLeaf]
    /\ ordered = {}
    /\ coupon = [c \in CouponIDs |-> NoCoupon]
    /\ eligible = [c \in CouponIDs |-> [p \in ProductIDs |-> 0]]
    /\ task = [x \in Managers |-> NoTask]
    /\ written = [g \in ProductPageIDs |-> 0]
    /\ asked = [c \in CouponIDs |-> {}]
    /\ misplaced = {} /\ emptied = {} /\ overwritten = {} /\ mixed = {}

StartTask(x, t) == task[x] = NoTask /\ task' = [task EXCEPT ![x] = t]
Asks(x, op) == task[x] # NoTask /\ task[x].op = op

\* x is over, and those at work on the same product or coupon have old data.
Done(x, on) ==
    task' = [y \in Managers |->
               IF y = x THEN NoTask
               ELSE IF task[y] # NoTask /\ task[y].on = on
                    THEN [task[y] EXCEPT !.late = TRUE, !.stale = TRUE]
               ELSE task[y]]

\* A request that is refused or fails, its transaction rolled back.
RefuseTask(x) ==
    /\ task[x] # NoTask
    /\ task' = [task EXCEPT ![x] = NoTask]
    /\ UNCHANGED <<product, ordered, leafVars, couponVars>>

-----------------------------------------------------------------------------
(* Products.                                                               *)

\* With a first page, in one transaction.
CreateProduct(p, g) ==
    /\ product[p] = "none" /\ IsNewPage(g) /\ MayWrite
    /\ product' = [product EXCEPT ![p] = "draft"]
    /\ leaf' = [leaf EXCEPT ![g] = [product |-> p, position |-> 0, text |-> 1]]
    /\ written' = [written EXCEPT ![g] = 1]
    /\ UNCHANGED <<ordered, task, misplaced, emptied, overwritten, couponVars>>

FindProduct(x, p) ==
    /\ p \in Live
    /\ StartTask(x, [op |-> "product", on |-> p, late |-> FALSE, stale |-> FALSE,
                 read |-> product[p]])
    /\ UNCHANGED <<product, ordered, leafVars, couponVars>>

\* The status that was read is written back, if the request doesn't give one.
UpdateProduct(x) ==
    /\ Asks(x, "product")
    /\ \E s \in Statuses \cup {task[x].read} :
         product' = IF task[x].on \in Live THEN [product EXCEPT ![task[x].on] = s] ELSE product
    /\ task' = [task EXCEPT ![x] = NoTask]
    /\ UNCHANGED <<ordered, leafVars, couponVars>>

\* A product with orders is not deleted.
CheckProduct(x, p) ==
    /\ p \in Live \ ordered
    /\ StartTask(x, [op |-> "delete product", on |-> p, late |-> FALSE, stale |-> FALSE])
    /\ UNCHANGED <<product, ordered, leafVars, couponVars>>

\* Its pages and what coupons say of it go with it; an order that came in the
\* meantime prevents it.
DeleteProduct(x) ==
    LET p == task[x].on IN
    /\ Asks(x, "delete product") /\ p \notin ordered
    /\ product' = [product EXCEPT ![p] = "deleted"]
    /\ leaf' = [g \in ProductPageIDs |-> IF g \in PagesOf(p) THEN NoLeaf ELSE leaf[g]]
    /\ eligible' = [c \in CouponIDs |-> [eligible[c] EXCEPT ![p] = 0]]
    /\ Done(x, p)
    /\ UNCHANGED <<ordered, coupon, asked, mixed, written, misplaced, emptied, overwritten>>

\* An active product is ordered; the row comes when Stripe has answered, if the
\* product is still there.
FindOrderedProduct(x, p) ==
    /\ product[p] = "active"
    /\ StartTask(x, [op |-> "order", on |-> p, late |-> FALSE, stale |-> FALSE])
    /\ UNCHANGED <<product, ordered, leafVars, couponVars>>

PlaceOrder(x) ==
    /\ Asks(x, "order") /\ task[x].on \in Live
    /\ ordered' = ordered \cup {task[x].on}
    /\ task' = [task EXCEPT ![x] = NoTask]
    /\ UNCHANGED <<product, leafVars, couponVars>>

-----------------------------------------------------------------------------
(* Pages.  A row that is gone is not written, and none is refused for that. *)

\* The position is how many there are.
CountPages(x, p) ==
    /\ p \in Live
    /\ StartTask(x, [op |-> "create page", on |-> p, late |-> FALSE, stale |-> FALSE,
                 position |-> Cardinality(PagesOf(p))])
    /\ UNCHANGED <<product, ordered, leafVars, couponVars>>

CreateProductPage(x, g) ==
    LET p == task[x].on IN
    /\ Asks(x, "create page") /\ p \in Live /\ IsNewPage(g) /\ MayWrite
    /\ leaf' = [leaf EXCEPT ![g] = [product |-> p, position |-> task[x].position,
                                    text |-> 1]]
    /\ written' = [written EXCEPT ![g] = 1]
    /\ misplaced' = IF task[x].stale THEN misplaced \cup {p} ELSE misplaced
    /\ Done(x, p)
    /\ UNCHANGED <<product, ordered, emptied, overwritten, couponVars>>

FindProductPage(x, g) ==
    /\ leaf[g] # NoLeaf
    /\ StartTask(x, [op |-> "update page", on |-> leaf[g].product, late |-> FALSE,
                 stale |-> FALSE, page |-> g, position |-> leaf[g].position])
    /\ UNCHANGED <<product, ordered, leafVars, couponVars>>

\* The text is new, the position the one that was read.
UpdateProductPage(x) ==
    LET p == task[x].on
        g == task[x].page
    IN  /\ Asks(x, "update page") /\ leaf[g] # NoLeaf /\ MayWrite
        /\ leaf' = [leaf EXCEPT ![g].text = written[g] + 1, ![g].position = task[x].position]
        /\ written' = [written EXCEPT ![g] = @ + 1]
        /\ overwritten' = overwritten \ {g}
        /\ misplaced' = IF task[x].stale THEN misplaced \cup {p} ELSE misplaced
        /\ Done(x, p)
        /\ UNCHANGED <<product, ordered, emptied, couponVars>>

\* The last page can't be deleted.
CheckPage(x, g) ==
    /\ leaf[g] # NoLeaf /\ Cardinality(PagesOf(leaf[g].product)) > 1
    /\ StartTask(x, [op |-> "check page", on |-> leaf[g].product, late |-> FALSE,
                 stale |-> FALSE, page |-> g])
    /\ UNCHANGED <<product, ordered, leafVars, couponVars>>

\* The transaction reads the rows of all pages, in their order.
FindPagesToRenumber(x) ==
    LET P == PagesOf(task[x].on) IN
    /\ Asks(x, "check page")
    /\ \E list \in Orders(P) :
         LET g == task[x].page
             others == P \ {g}
         IN  task' = [task EXCEPT ![x] =
               [op |-> "delete page", on |-> task[x].on, late |-> task[x].late,
                stale |-> FALSE, page |-> g,
                rows |-> [h \in others |->
                            [leaf[h] EXCEPT !.position = Cardinality({i \in others : list[i] < list[h]})]]]]
    /\ UNCHANGED <<product, ordered, leafVars, couponVars>>

\* The rows that were read are written, those that are still there.
WrittenBack(rows) ==
    [g \in ProductPageIDs |-> IF g \in DOMAIN rows /\ leaf[g] # NoLeaf THEN rows[g] ELSE leaf[g]]

\* Every page of p was placed anew, rightly if nothing changed since it was read.
Placed(x, p, rows) ==
    /\ misplaced' = IF task[x].stale THEN misplaced \cup {p} ELSE misplaced \ {p}
    /\ overwritten' = IF task[x].stale THEN overwritten \cup DOMAIN rows ELSE overwritten
    /\ Done(x, p)

\* Fault: the other pages keep their positions.
DeleteProductPageOnly(x) ==
    LET p == task[x].on
        g == task[x].page
    IN  /\ Asks(x, "delete page")
        /\ leaf' = [leaf EXCEPT ![g] = NoLeaf]
        /\ emptied' = IF task[x].late THEN emptied \cup {p} ELSE emptied
        /\ Placed(x, p, task[x].rows)
        /\ UNCHANGED <<product, ordered, written, couponVars>>

DeleteProductPage(x) ==
    LET p == task[x].on
        g == task[x].page
    IN  /\ Asks(x, "delete page")
        /\ leaf' = [WrittenBack(task[x].rows) EXCEPT ![g] = NoLeaf]
        /\ emptied' = IF task[x].late THEN emptied \cup {p} ELSE emptied
        /\ Placed(x, p, task[x].rows)
        /\ UNCHANGED <<product, ordered, written, couponVars>>

\* The request names all the pages, each once, in their new order; so it does
\* for a product that has none.
FindPagesToReorder(x, p) ==
    /\ p \in Live
    /\ \E list \in {f \in [PagesOf(p) -> 0 .. Cardinality(PagesOf(p)) - 1] : IsInjective(f)} :
         StartTask(x, [op |-> "reorder", on |-> p, late |-> FALSE, stale |-> FALSE,
                   rows |-> [g \in PagesOf(p) |-> [leaf[g] EXCEPT !.position = list[g]]]])
    /\ UNCHANGED <<product, ordered, leafVars, couponVars>>

ReorderProductPages(x) ==
    /\ Asks(x, "reorder")
    /\ leaf' = WrittenBack(task[x].rows)
    /\ Placed(x, task[x].on, task[x].rows)
    /\ UNCHANGED <<product, ordered, written, emptied, couponVars>>

-----------------------------------------------------------------------------
(* Coupons.                                                                *)

\* Fault: products are added, and none is taken away.
DiffProductsRemovingNone(current, new) == [create |-> new \ current, remove |-> {}]

DiffProducts(current, new) == [create |-> new \ current, remove |-> current \ new]

ProductsOf(c) == {p \in ProductIDs : eligible[c][p] > 0}
CodeIsFree(code, c) == \A d \in CouponIDs \ {c} : coupon[d] # NoCoupon => coupon[d].code # code

\* The code is free, and new products are of the website.
FindCoupon(x, c, code, new) ==
    LET diff == DiffProducts(ProductsOf(c), new) IN
    /\ CodeIsFree(code, c) /\ diff.create \subseteq Live
    /\ StartTask(x, [op |-> IF coupon[c] = NoCoupon THEN "create coupon" ELSE "update coupon",
                 on |-> c, late |-> FALSE, stale |-> FALSE,
                 code |-> code, diff |-> diff, new |-> new])
    /\ UNCHANGED <<product, ordered, leafVars, couponVars>>

\* A row more for what is to be created, no row for what is to be removed; that
\* the product is there is a constraint of the table.
AssociateProductsToCoupon(c, diff) ==
    /\ diff.create \subseteq Live
    /\ eligible' = [eligible EXCEPT ![c] =
         [p \in ProductIDs |-> IF p \in diff.remove THEN 0
                               ELSE IF p \in diff.create THEN @[p] + 1 ELSE @[p]]]

CommitCoupon(x) ==
    LET c == task[x].on IN
    /\ CodeIsFree(task[x].code, c)
    /\ AssociateProductsToCoupon(c, task[x].diff)
    /\ asked' = [asked EXCEPT ![c] = task[x].new]
    /\ mixed' = IF task[x].stale THEN mixed \cup {c} ELSE mixed
    /\ Done(x, c)
    /\ UNCHANGED <<product, ordered, leafVars>>

\* A coupon with an expiry date is archived from the start, at that date.
CreateCoupon(x, expires) ==
    /\ Asks(x, "create coupon") /\ coupon[task[x].on] = NoCoupon
    /\ coupon' = [coupon EXCEPT ![task[x].on] = [code |-> task[x].code, archived |-> expires]]
    /\ CommitCoupon(x)

UpdateCoupon(x, archived) ==
    /\ Asks(x, "update coupon")
    /\ coupon' = [coupon EXCEPT ![task[x].on] = [code |-> task[x].code, archived |-> archived]]
    /\ CommitCoupon(x)

-----------------------------------------------------------------------------

ProductsNext ==
    \/ \E p \in ProductIDs, g \in ProductPageIDs : CreateProduct(p, g)
    \/ \E x \in Managers :
         (\E p \in ProductIDs : CheckProduct(x, p)) \/ DeleteProduct(x) \/ RefuseTask(x)

SalesNext ==
    \E x \in Managers :
       \/ \E p \in ProductIDs : FindProduct(x, p) \/ FindOrderedProduct(x, p)
       \/ UpdateProduct(x) \/ PlaceOrder(x)

ProductPagesNext ==
    \E x \in Managers :
       \/ \E p \in ProductIDs : CountPages(x, p) \/ FindPagesToReorder(x, p)
       \/ \E g \in ProductPageIDs :
            CreateProductPage(x, g) \/ FindProductPage(x, g) \/ CheckPage(x, g)
       \/ FindPagesToRenumber(x) \/ DeleteProductPage(x) \/ UpdateProductPage(x)
       \/ ReorderProductPages(x)

CouponsNext ==
    \E x \in Managers :
       \/ \E c \in CouponIDs, code \in Codes, new \in SUBSET ProductIDs : FindCoupon(x, c, code, new)
       \/ \E b \in BOOLEAN : CreateCoupon(x, b) \/ UpdateCoupon(x, b)

CatalogueNext == ProductsNext \/ SalesNext \/ ProductPagesNext \/ CouponsNext

CatalogueSpec == CatalogueInit /\ [][CatalogueNext]_catalogueVars

-----------------------------------------------------------------------------
(* Properties.                                                             *)

CatalogueTypeOK ==
    /\ product \in [ProductIDs -> Statuses \cup {"none", "deleted"}]
    /\ \A g \in ProductPageIDs :
         leaf[g] = NoLeaf \/ leaf[g] \in ProductPage
    /\ \A c \in CouponIDs :
         coupon[c] = NoCoupon \/ coupon[c] \in Coupon
    /\ eligible \in [CouponIDs -> [ProductIDs -> Nat]] /\ asked \in [CouponIDs -> SUBSET ProductIDs]
    /\ \A x \in Managers : task[x] = NoTask \/ task[x].on \in ProductIDs \cup CouponIDs
    /\ ordered \subseteq ProductIDs

\* The pages of a product are numbered from zero without a gap, there is at least
\* one, and each has the text that was saved last.  It takes a request that wrote
\* what it had read before another to disturb them; and an undisturbed reordering
\* or deletion puts the numbers right again.
PagesAreInOrder ==
    \A p \in Live :
        /\ p \in misplaced \/
             {leaf[g].position : g \in PagesOf(p)} = 0 .. Cardinality(PagesOf(p)) - 1
        /\ p \in emptied \/ PagesOf(p) # {}
        /\ \A g \in PagesOf(p) \ overwritten : leaf[g].text = written[g]

\* A coupon is for the products it was saved with last, as far as they exist, each
\* once, but where two changes of it overlapped.  A product with orders is there.
CouponsAreAsAsked ==
    /\ \A c \in CouponIDs \ mixed :
         /\ ProductsOf(c) = asked[c] \cap Live
         /\ \A p \in ProductIDs : eligible[c][p] <= 1
    /\ ordered \subseteq Live

\* What is sold is what the staff saved.
CatalogueIsKept == PagesAreInOrder /\ CouponsAreAsAsked
=============================================================================
