------------------------------ MODULE FixStore ------------------------------
(***************************************************************************)
(* The state that the approval gate, the publisher and the optimizer of    *)
(* the agent share: the `fixes' rows, our copy of each product, the row    *)
(* locks of the database, and the merchant's live store.                   *)
(*                                                                         *)
(* A product is a description body, a category and "the rest" (title,      *)
(* variants, metafields...).  A body is the merchant's copy followed by    *)
(* the Details blocks we appended; `echo' says whether its markup is the   *)
(* one that was sent or the one Shopify normalised it to.                  *)
(***************************************************************************)
EXTENDS Naturals, Sequences, FiniteSets

CONSTANTS
  Fixes,          \* ids of fixes rows (a slot is unused while its status is "none")
  Products,       \* ids of the shop's products, ordered as the database orders them
  ProductOf,      \* fixes.product_id
  TypeOf,         \* fixes.type
  BlockOf,        \* the Details block a description fix appends
  Blocks,
  Copies,         \* what a merchant may write as a description
  WordsOf,        \* the words of a copy, markup stripped
  Categories,     \* category values; NoCategory is an uncategorised product
  NoCategory,
  OurCategory,    \* the category the optimizer proposes
  Others,         \* versions of the remaining hashed fields
  NoProduct,      \* what a fetch of a deleted product returns
  Deciders,       \* concurrent approve/reject requests
  Free            \* owner of an unlocked row

FixTypes == {"description", "category", "metafield", "merchant_todo"}

ASSUME FixStoreAssumption ==
  /\ Products \subseteq Nat
  /\ ProductOf \in [Fixes -> Products]
  /\ TypeOf \in [Fixes -> FixTypes]
  /\ BlockOf \in [Fixes -> Blocks]
  /\ DOMAIN WordsOf = Copies
  /\ NoCategory \in Categories
  /\ OurCategory \in Categories \ {NoCategory}
  /\ Free \notin Deciders

\* product_id is a database key: any set of products has a first one.
ASSUME ProductOrderAssumption ==
  \A P \in SUBSET Products : P # {} => \E p \in P : \A q \in P : p <= q

FixStatus == {"proposed", "approved", "published", "verified", "rejected",
              "stale", "publish_failed"}

Body == [copy : Copies, lines : Seq(Blocks), echo : {"sent", "normalised"}]
Product == [body : Body, cat : Categories, other : Others]
LiveProduct == Product \union {NoProduct}

ASSUME NoProductAssumption == NoProduct \notin Product

VARIABLES
  status,     \* fixes.status; "none" for a row that does not exist
  basis,      \* the product a fix was computed from: before_json and base_source_hash
  lock,       \* row locks: the transaction that holds each fixes row
  row,        \* products: our copy of each product
  live,       \* the merchant's store
  shown,      \* history: every version the store has held
  consented   \* history: the fixes whose approval has been committed

storeVars == <<status, basis, lock, row, live, shown, consented>>

StoreTypeOK ==
  /\ status \in [Fixes -> FixStatus \union {"none"}]
  /\ basis \in [Fixes -> Product]
  /\ lock \in [Fixes -> Deciders \union {Free}]
  /\ row \in [Products -> Product]
  /\ live \in [Products -> LiveProduct]
  /\ shown \in [Products -> SUBSET Product]
  /\ consented \subseteq Fixes

WithStatus(s) == {f \in Fixes : status[f] = s}

\* fixes.target: one body and one category per product.
SameTarget(f, g) == ProductOf[f] = ProductOf[g] /\ TypeOf[f] = TypeOf[g]

Rivals(f) == {g \in Fixes \ {f} : SameTarget(f, g)}

\* The one field a fix reads (before_json) and writes (after_json).
Field(f, product) == IF TypeOf[f] = "description" THEN product.body ELSE product.cat

Before(f) == Field(f, basis[f])

\* optimizer._compose_description appends one block to the stored body; a category
\* fix assigns our category.
After(f) == IF TypeOf[f] = "description"
              THEN [basis[f].body EXCEPT !.lines = Append(@, BlockOf[f])]
              ELSE OurCategory

WithField(f, product, value) ==
  IF TypeOf[f] = "description" THEN [product EXCEPT !.body = value]
                               ELSE [product EXCEPT !.cat = value]

\* catalog.stable_source_hash: words of the body and the other source fields.  The
\* category is deliberately not hashed, and neither is markup.
SourceHash(product) ==
  <<WordsOf[product.body.copy], product.body.lines, product.other>>

Unlocked(S) == \A f \in S : lock[f] = Free

Show(p, product) == shown' = [shown EXCEPT ![p] = @ \union {product}]

=============================================================================
