----------------------------- MODULE ShopCache -----------------------------
(***************************************************************************)
(* The cached row of one shop: ShopService.QueryById (cache aside, with a   *)
(* marker against look-ups of shops that do not exist), ShopService.Update  *)
(* (UPDATE in a transaction, then delete of the key, then commit) and       *)
(* ShopController.SaveShop.  Every request is a process; a call to Redis or *)
(* MySQL may fail, done or not.  Keys of different shops are independent.   *)
(*                                                                         *)
(* A row is abstracted to the number of the write that produced it.         *)
(***************************************************************************)
EXTENDS Naturals, FiniteSets

CONSTANTS
    Readers,        \* concurrent QueryById requests
    Writers,        \* concurrent Update requests
    MaxVersion,     \* bound on the writes of a behaviour
    MaxShopFaults,  \* bound on the failed calls of a behaviour
    NoShop,         \* the row does not exist; cached, it is the marker "selfnull"
    Absent          \* the key cache:shop:<id> does not exist

ASSUME ShopBoundsAssumption == MaxVersion \in Nat /\ MaxShopFaults \in Nat
ASSUME NoShopAssumption == NoShop \notin Nat
ASSUME AbsentAssumption == Absent \notin Nat /\ Absent # NoShop
ASSUME ShopRequestsAssumption == Readers \cap Writers = {}

VARIABLES
    row,        \* MySQL: the committed row
    version,    \* number of the latest write
    cache,      \* Redis: the value of cache:shop:<id>
    shopPc,     \* next call of each request
    held,       \* row a reader has read, or a writer's transaction has written
    past,       \* history: every row that was ever committed
    shopFaults  \* number of failed calls so far

shopVars == <<row, version, cache, shopPc, held, past, shopFaults>>

ShopRequests == Readers \cup Writers
ShopRows == Nat \cup {NoShop}

ShopTypeOK ==
    /\ row \in ShopRows
    /\ version \in Nat
    /\ cache \in ShopRows \cup {Absent}
    /\ shopPc \in [ShopRequests -> {"idle", "query", "fill", "update", "delete", "commit", "rollback"}]
    /\ held \in [ShopRequests -> ShopRows]
    /\ past \subseteq ShopRows
    /\ shopFaults \in 0 .. MaxShopFaults

ShopInit ==
    /\ row \in {NoShop, 0}
    /\ version = 0
    /\ cache = Absent
    /\ shopPc = [p \in ShopRequests |-> "idle"]
    /\ held = [p \in ShopRequests |-> NoShop]
    /\ past = {row}
    /\ shopFaults = 0

ShopGoto(p, l) == shopPc' = [shopPc EXCEPT ![p] = l]

\* Bound on the writes: no request begins one that would exceed MaxVersion.
ShopRoom == version + Cardinality({w \in Writers : shopPc[w] = "update"}) < MaxVersion

-----------------------------------------------------------------------------
(***************************************************************************)
(* QueryWithPassThrough.  A hit (of a row or of the marker) answers from     *)
(* the cache and changes nothing; a miss goes on to the database.           *)
(***************************************************************************)
MissCache(r) ==
    /\ shopPc[r] = "idle"
    /\ cache = Absent
    /\ ShopGoto(r, "query")
    /\ UNCHANGED <<row, version, cache, held, past, shopFaults>>

\* QueryById outside any transaction reads what is committed.
RowSeen == row

QueryRow(r) ==
    /\ shopPc[r] = "query"
    /\ held' = [held EXCEPT ![r] = RowSeen]
    /\ ShopGoto(r, "fill")
    /\ UNCHANGED <<row, version, cache, past, shopFaults>>

\* StringSet of the row (30 minutes) or of the marker (2 minutes).
FillCache(r) ==
    /\ shopPc[r] = "fill"
    /\ cache' = held[r]
    /\ ShopGoto(r, "idle")
    /\ UNCHANGED <<row, version, held, past, shopFaults>>

\* Mutant of ExpireCache: rows are stored without a time to live.
ExpireMarkerOnly ==
    /\ cache = NoShop
    /\ cache' = Absent
    /\ UNCHANGED <<row, version, shopPc, held, past, shopFaults>>

ExpireCache ==
    /\ cache # Absent
    /\ cache' = Absent
    /\ UNCHANGED <<row, version, shopPc, held, past, shopFaults>>

-----------------------------------------------------------------------------
(***************************************************************************)
(* SaveShop inserts the row and leaves the cache alone.                     *)
(***************************************************************************)
SaveShop ==
    /\ row = NoShop
    /\ ShopRoom
    /\ row' = version + 1
    /\ version' = version + 1
    /\ past' = past \cup {version + 1}
    /\ UNCHANGED <<cache, shopPc, held, shopFaults>>

-----------------------------------------------------------------------------
(***************************************************************************)
(* Update.  The UPDATE takes the row's lock until the transaction ends; on   *)
(* a shop that does not exist it changes nothing and the request goes on.   *)
(***************************************************************************)
BeginTran(w) ==
    /\ shopPc[w] = "idle"
    /\ ShopRoom
    /\ ShopGoto(w, "update")
    /\ UNCHANGED <<row, version, cache, held, past, shopFaults>>

HoldsRow(w) == shopPc[w] \in {"delete", "commit", "rollback"} /\ held[w] # NoShop

UpdateRow(w) ==
    /\ shopPc[w] = "update"
    /\ \/ /\ row # NoShop
          /\ \A o \in Writers : ~HoldsRow(o)
          /\ version' = version + 1
          /\ held' = [held EXCEPT ![w] = version + 1]
       \/ /\ row = NoShop
          /\ held' = [held EXCEPT ![w] = NoShop]
          /\ version' = version
    /\ ShopGoto(w, "delete")
    /\ UNCHANGED <<row, cache, past, shopFaults>>

\* Mutant of KeyDeleted: the new row is put into the cache instead.
KeyWritten(w) == held[w]

\* The key after KeyDelete.
KeyDeleted(w) == Absent

DeleteKey(w) ==
    /\ shopPc[w] = "delete"
    /\ cache' = KeyDeleted(w)
    /\ ShopGoto(w, "commit")
    /\ UNCHANGED <<row, version, held, past, shopFaults>>

\* The effect of a commit: the transaction's row, if it wrote one, is the row.
Committed(w) == IF held[w] = NoShop THEN row ELSE held[w]

CommitTran(w) ==
    /\ shopPc[w] = "commit"
    /\ row' = Committed(w)
    /\ past' = past \cup {Committed(w)}
    /\ held' = [held EXCEPT ![w] = NoShop]
    /\ ShopGoto(w, "idle")
    /\ UNCHANGED <<version, cache, shopFaults>>

\* Mutant of RollbackTran: the catch block does not end the transaction.
RollbackForgotten(w) == shopPc[w] = "rollback" /\ UNCHANGED shopVars

RollbackTran(w) ==
    /\ shopPc[w] = "rollback"
    /\ held' = [held EXCEPT ![w] = NoShop]
    /\ ShopGoto(w, "idle")
    /\ UNCHANGED <<row, version, cache, past, shopFaults>>

-----------------------------------------------------------------------------
(***************************************************************************)
(* Failures.  A failed call to Redis may have been carried out; so may a     *)
(* failed commit, after which there is nothing left to roll back.           *)
(***************************************************************************)
ShopFault == shopFaults < MaxShopFaults /\ shopFaults' = shopFaults + 1

\* QueryById throws, or the SET fails (done or not): the request ends.
ReaderFails(r) ==
    /\ ShopFault
    /\ shopPc[r] \in {"query", "fill"}
    /\ cache' \in {cache} \cup (IF shopPc[r] = "fill" THEN {held[r]} ELSE {})
    /\ ShopGoto(r, "idle")
    /\ UNCHANGED <<row, version, held, past>>

UpdateFails(w) ==
    /\ ShopFault
    /\ shopPc[w] = "update"
    /\ held' = [held EXCEPT ![w] = NoShop]
    /\ ShopGoto(w, "rollback")
    /\ UNCHANGED <<row, version, cache, past>>

DeleteFails(w) ==
    /\ ShopFault
    /\ shopPc[w] = "delete"
    /\ cache' \in {cache, KeyDeleted(w)}
    /\ ShopGoto(w, "rollback")
    /\ UNCHANGED <<row, version, held, past>>

CommitFails(w) ==
    /\ ShopFault
    /\ shopPc[w] = "commit"
    /\ \/ /\ row' = Committed(w)
          /\ past' = past \cup {Committed(w)}
          /\ held' = [held EXCEPT ![w] = NoShop]
       \/ UNCHANGED <<row, past, held>>
    /\ ShopGoto(w, "rollback")
    /\ UNCHANGED <<version, cache>>

\* The process ends; MySQL undoes the transaction.
ShopCrash(p) ==
    /\ ShopFault
    /\ shopPc[p] # "idle"
    /\ held' = [held EXCEPT ![p] = NoShop]
    /\ ShopGoto(p, "idle")
    /\ UNCHANGED <<row, version, cache, past>>

-----------------------------------------------------------------------------
ReadShop(r)  == MissCache(r) \/ QueryRow(r) \/ FillCache(r)
WriteShop(w) == UpdateRow(w) \/ DeleteKey(w) \/ CommitTran(w) \/ RollbackTran(w)

ShopNext ==
    \/ \E r \in Readers : ReadShop(r) \/ ReaderFails(r)
    \/ \E w \in Writers :
          BeginTran(w) \/ WriteShop(w) \/ UpdateFails(w) \/ DeleteFails(w) \/ CommitFails(w)
    \/ \E p \in ShopRequests : ShopCrash(p)
    \/ SaveShop
    \/ ExpireCache

ShopSpec == ShopInit /\ [][ShopNext]_shopVars

(***************************************************************************)
(* A request that has begun goes on, and every value has a time to live.     *)
(* Nobody is obliged to begin a request.                                    *)
(***************************************************************************)
ShopFairness ==
    /\ \A r \in Readers : WF_shopVars(QueryRow(r) \/ FillCache(r))
    /\ \A w \in Writers : WF_shopVars(WriteShop(w))
    /\ WF_shopVars(ExpireCache)

-----------------------------------------------------------------------------
(***************************************************************************)
(* No client is ever shown, from the cache or from the database, a row that  *)
(* was never committed: the rows of transactions that roll back, crash or    *)
(* are still open stay out of Redis and out of the readers' hands.          *)
(***************************************************************************)
OnlyCommittedShown ==
    /\ cache \in past \cup {Absent}
    /\ \A r \in Readers : shopPc[r] = "fill" => held[r] \in past

ShopFresh == cache \in {row, Absent}

(***************************************************************************)
(* However reads, updates and failures interleave, every Update comes to an  *)
(* end, its failures releasing the row's lock that other updates of the shop *)
(* wait for, and the cache does not stay out of date: once writes cease it   *)
(* ends up absent or equal to the row, for good.  The latter rests on the    *)
(* time to live alone.                                                       *)
(***************************************************************************)
EventuallyFresh ==
    /\ <>[]ShopFresh
    /\ \A w \in Writers : (shopPc[w] = "update") ~> (shopPc[w] = "idle")

=============================================================================
