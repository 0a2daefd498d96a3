------------------------------- MODULE Assets -------------------------------
(***************************************************************************)
(* Fixed assets of apps/finance: their approval and capitalization, and    *)
(* the depreciation of a period, served by the workers of Finance.         *)
(*                                                                         *)
(* The value of an asset is abstracted to what it has to lose, its         *)
(* capitalized cost less its residual value.                               *)
(***************************************************************************)
EXTENDS Finance

CONSTANTS
  FixedAssets,   \* assets that clients may create, in the order of their keys
  Worth,         \* capitalized_cost - residual_value, per asset
  Monthly,       \* what a period takes of it, per asset
  Periods        \* periods that clients depreciate

AssetStatuses == {"DRAFT", "PENDING_APPROVAL", "APPROVED", "ACTIVE", "FULLY_DEPRECIATED"}
NoAsset == [status |-> "ABSENT", accumulated |-> 0]

ASSUME AssetsAssumption ==
  /\ FixedAssets \subseteq Nat /\ IsFiniteSet(FixedAssets)
  /\ {Worth, Monthly} \subseteq [FixedAssets -> Nat \ {0}]
  /\ IsFiniteSet(Periods)

VARIABLES
  assets,        \* FixedAsset.status and accumulated_depreciation
  capitalized,   \* assets with a capitalization entry in the ledger
  depreciated    \* amounts of the FixedAssetDepreciation rows, per asset and period

assetVars == <<assets, capitalized, depreciated>>
allVars == <<vars, assetVars>>

AllInit ==
  /\ Init
  /\ assets = [a \in FixedAssets |-> NoAsset]
  /\ capitalized = {}
  /\ depreciated = [a \in FixedAssets |-> [p \in Periods |-> <<>>]]

----------------------------------------------------------------------------
(* Workflow. *)

Inserting(w) == {r.asset : r \in job[w].rows}
Saved(w) == Inserting(w) \ (IF At(w, "period_row") THEN {job[w].asset} ELSE {})
Posting(w) == "rows" \in DOMAIN job[w]

\* No run of a period has saved the asset and goes on.
AssetFree(w, a) == \A v \in Others(w) : ~(Posting(v) /\ a \in Saved(v))

CreateAsset(w) ==
  /\ Takes(w, "create_asset")
  /\ \E a \in FixedAssets :
       /\ assets[a] = NoAsset /\ a \notin capitalized
       /\ \A v \in Others(w) : ~("asset" \in DOMAIN job[v] /\ job[v].asset = a)
       /\ assets' = [assets EXCEPT ![a].status = "DRAFT"]
  /\ UNCHANGED <<clients, overlap, documents, job, money, capitalized, depreciated>>

\* Requests that save an asset: from which status, to which, and whether the whole
\* row is saved.
AssetMoves ==
  {[kind |-> "edit_asset", from |-> "DRAFT", to |-> "DRAFT", whole |-> TRUE],
   [kind |-> "submit_asset", from |-> "DRAFT", to |-> "PENDING_APPROVAL", whole |-> FALSE],
   [kind |-> "approve_asset", from |-> "PENDING_APPROVAL", to |-> "APPROVED", whole |-> TRUE],
   [kind |-> "capitalize", from |-> "APPROVED", to |-> "ACTIVE", whole |-> TRUE]}

AssetLoad(w) ==
  /\ \E a \in FixedAssets, move \in AssetMoves :
       /\ Takes(w, move.kind)
       /\ assets[a].status = move.from
       /\ Becomes(w, [step |-> "asset", asset |-> a, whole |-> move.whole,
                      capitalizes |-> move.kind = "capitalize",
                      row |-> [assets[a] EXCEPT !.status = move.to]])
  /\ UNCHANGED <<clients, overlap, documents, money, assetVars>>

\* A whole row is inserted again when it is gone.  The entry of a capitalization
\* is numbered by the asset's tag, so that there is one.
AssetSave(w) ==
  LET a == job[w].asset
  IN /\ At(w, "asset")
     /\ AssetFree(w, a)
     /\ job[w].whole \/ assets[a].status # "ABSENT"
     /\ assets' = [assets EXCEPT ![a] =
          IF job[w].whole THEN job[w].row
          ELSE [status |-> job[w].row.status, accumulated |-> assets[a].accumulated]]
     /\ job[w].capitalizes => a \notin capitalized
     /\ capitalized' = IF job[w].capitalizes THEN capitalized \union {a} ELSE capitalized
     /\ Respond(w)
     /\ UNCHANGED <<clients, overlap, documents, money, depreciated>>

\* Depreciation rows protect their asset.
DeleteAsset(w) ==
  /\ Takes(w, "delete_asset")
  /\ \E a \in FixedAssets :
       /\ assets[a].status # "ABSENT"
       /\ \A p \in Periods : depreciated[a][p] = <<>>
       /\ \A v \in Others(w) : ~(Posting(v) /\ a \in Inserting(v))
       /\ assets' = [assets EXCEPT ![a] = NoAsset]
  /\ UNCHANGED <<clients, overlap, documents, job, money, capitalized, depreciated>>

----------------------------------------------------------------------------
(* Depreciation of a period. *)

\* post_period reads the active assets that have something to lose, all at once.
PeriodLoad(w) ==
  /\ Takes(w, "post_period")
  /\ \E p \in Periods :
       Becomes(w, [step |-> "period", period |-> p, rows |-> {},
         left |-> {[asset |-> a, accumulated |-> assets[a].accumulated] :
                     a \in {x \in FixedAssets : /\ assets[x].status = "ACTIVE"
                                                /\ assets[x].accumulated < Worth[x]}}])
  /\ UNCHANGED <<clients, overlap, documents, money, assetVars>>

FirstOf(left) == CHOOSE x \in left : \A y \in left : x.asset <= y.asset

Loss(read) == Min({Monthly[read.asset], Worth[read.asset] - read.accumulated})

\* Mutant: a row is made although the period has one.
MissingUnchecked(a, p) == TRUE

\* get_or_create finds no row of the period.
Missing(a, p) == depreciated[a][p] = <<>>

\* The next asset: its row is inserted, unless it is there.
PeriodRow(w) ==
  LET read == FirstOf(job[w].left)
      rest == job[w].left \ {read}
  IN /\ At(w, "period")
     /\ job[w].left # {}
     /\ IF ~Missing(read.asset, job[w].period)
        THEN Becomes(w, [job[w] EXCEPT !.left = rest])
        ELSE /\ assets[read.asset].status # "ABSENT"
             /\ Becomes(w, [step |-> "period_row", period |-> job[w].period, left |-> rest,
                            asset |-> read.asset,
                            rows |-> job[w].rows \union
                              {[asset |-> read.asset, amount |-> Loss(read),
                                accumulated |-> read.accumulated + Loss(read)]}])
     /\ UNCHANGED <<clients, overlap, documents, money, assetVars>>

\* The asset is saved, and so locked.
PeriodSave(w) ==
  /\ At(w, "period_row")
  /\ AssetFree(w, job[w].asset)
  /\ Becomes(w, [step |-> "period", period |-> job[w].period, left |-> job[w].left,
                 rows |-> job[w].rows])
  /\ UNCHANGED <<clients, overlap, documents, money, assetVars>>

\* What the run writes to an asset, over what it is by now.
PeriodCommit(w) ==
  LET rows == job[w].rows
      saved(a) == CHOOSE r \in rows : r.asset = a
  IN /\ At(w, "period")
     /\ job[w].left = {}
     /\ assets' = [a \in FixedAssets |->
          IF a \notin Inserting(w) THEN assets[a]
          ELSE [status |-> IF saved(a).accumulated = Worth[a]
                           THEN "FULLY_DEPRECIATED" ELSE "ACTIVE",
                accumulated |-> saved(a).accumulated]]
     /\ depreciated' = [a \in FixedAssets |->
          IF a \notin Inserting(w) THEN depreciated[a]
          ELSE [depreciated[a] EXCEPT ![job[w].period] = Append(@, saved(a).amount)]]
     /\ Respond(w)
     /\ UNCHANGED <<clients, overlap, documents, money, capitalized>>

----------------------------------------------------------------------------

AssetStep(w) ==
  \/ CreateAsset(w) \/ AssetLoad(w) \/ AssetSave(w) \/ DeleteAsset(w)
  \/ PeriodLoad(w) \/ PeriodRow(w) \/ PeriodSave(w) \/ PeriodCommit(w)

AllNext ==
  \/ Next /\ UNCHANGED assetVars
  \/ \E w \in Workers : AssetStep(w)

AllSpec == AllInit /\ [][AllNext]_allVars

----------------------------------------------------------------------------
(* Properties. *)

\* The documents and the money keep their shape, and so do the assets.
AllTypeOK ==
  /\ TypeOK
  /\ assets \in [FixedAssets -> [status : AssetStatuses \union {"ABSENT"}, accumulated : Nat]]
  /\ capitalized \subseteq FixedAssets
  /\ depreciated \in [FixedAssets -> [Periods -> Seq(Nat)]]

RowsOf(a) ==
  SumFunctionOnSet([p \in Periods |-> SumFunctionOnSet(depreciated[a][p], DOMAIN depreciated[a][p])],
                   Periods)

\* However runs, approvals and edits overlap, an asset that is depreciated has been
\* capitalized, and never loses more than it has to lose or than its rows say.  One
\* run at a time takes a period once, loses exactly what the rows say, and knows
\* when nothing is left.
DepreciationAdds ==
  \A a \in FixedAssets :
    LET asset == assets[a]
    IN /\ asset.status \in {"ACTIVE", "FULLY_DEPRECIATED"} => a \in capitalized
       /\ asset.accumulated <= Worth[a] /\ asset.accumulated <= RowsOf(a)
       /\ ~overlap =>
            /\ asset.accumulated = RowsOf(a)
            /\ \A p \in Periods : Len(depreciated[a][p]) <= 1
            /\ asset.status = "FULLY_DEPRECIATED" <=> asset.accumulated = Worth[a]
=============================================================================
