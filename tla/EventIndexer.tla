------------------------------ MODULE EventIndexer ------------------------------
(***************************************************************************)
(* FinalityAwareIndexer (services/operator-api/src/indexer.ts) filling the *)
(* FileEventIndex of services/operator-api/src/api.ts from a chain that    *)
(* grows and is reorganised between any two reads. Each await of sync is   *)
(* two steps: the reader's answer, which sees the chain, and what the call *)
(* does with it, which sees the cursor; other calls of sync move on in     *)
(* between. The process may die between any two writes.                    *)
(*                                                                         *)
(* A block's hash is its height and its version, and every block has one   *)
(* event, which carries that hash.                                         *)
(***************************************************************************)
EXTENDS Integers, Sequences, FiniteSets

CONSTANTS
    Syncs,          \* calls of sync that may be under way together
    confirmations,
    MaxReorg,       \* blocks a reorganisation replaces at most
    MaxChainHead,   \* bound of the chain: heights 0..MaxChainHead
    MaxVersion,     \* bound of the reorganisations
    MaxCrashes      \* bound of the restarts

ASSUME IndexerAssumption ==
    /\ confirmations \in Nat /\ MaxReorg \in Nat /\ MaxChainHead \in Nat
    /\ MaxVersion \in Nat \ {0} /\ MaxCrashes \in Nat /\ Syncs # {}

VARIABLES
    chain,      \* height + 1 -> version of the canonical block
    stored,     \* the events of the file, with how often each was added
    cursor,     \* lastFinalizedBlock and lastFinalizedHash, of memory and file
    sync,       \* local state of each call
    rewind,     \* observation: a sync reported a reorganisation
    overlapped, \* observation: sync was called while another call was under way
    crashes

indexerVars == <<chain, stored, cursor, sync, rewind, overlapped, crashes>>

chainHead == Len(chain) - 1
blockHash(h) == [block |-> h, version |-> chain[h + 1]]
Event == [block: 0..MaxChainHead, version: 1..MaxVersion]
EventsIn(from, to) == {blockHash(h) : h \in from..to}

NoBlock == [block |-> -1, version |-> 0]
NoCursor == [block |-> -1, hash |-> NoBlock]
(* block is the one whose hash, or from which the events, are asked for.     *)
Resting == [pc |-> "idle", target |-> -1, block |-> -1, hash |-> NoBlock, batch |-> {}]

IndexerInit ==
    /\ chain = <<1>>
    /\ stored = [e \in Event |-> 0]
    /\ cursor = NoCursor
    /\ sync = [s \in Syncs |-> Resting]
    /\ rewind = FALSE /\ overlapped = FALSE
    /\ crashes = 0

-----------------------------------------------------------------------------
(* The chain: a new block, or a reorganisation of at most MaxReorg blocks    *)
(* that keeps its height.                                                    *)
indexVars == <<stored, cursor, sync, rewind, overlapped, crashes>>
NewBlock ==
    /\ chainHead < MaxChainHead
    /\ chain' = Append(chain, 1)
    /\ UNCHANGED indexVars

ChainReorg ==
    /\ \E depth \in 1..MaxReorg :
          /\ depth <= Len(chain)
          /\ \E h \in (Len(chain) - depth + 1)..Len(chain) : chain[h] < MaxVersion
          /\ chain' = [h \in 1..Len(chain) |->
                          IF h > Len(chain) - depth /\ chain[h] < MaxVersion
                          THEN chain[h] + 1 ELSE chain[h]]
    /\ UNCHANGED indexVars

Move(s, local) == sync' = [sync EXCEPT ![s] = local]
fileVars == <<chain, stored, cursor, crashes>>

-----------------------------------------------------------------------------
(* sync is called, and head() answers.                                       *)
(* Mutation: a block is final one block too late. *)
lateTarget == chainHead - confirmations - 1
finalTarget == chainHead - confirmations
HeadAnswered(s) ==
    /\ sync[s].pc = "idle"
    /\ Move(s, [pc |-> "starting", target |-> finalTarget,
                block |-> -1, hash |-> NoBlock, batch |-> {}])
    /\ overlapped' = (overlapped \/ \E u \in Syncs \ {s} : sync[u].pc # "idle")
    /\ UNCHANGED <<fileVars, rewind>>

(* Nothing to do returns at once; the first sync has no block to check.      *)
Behind(goal) == goal >= 0 /\ goal > cursor.block
Start(s) ==
    /\ sync[s].pc = "starting"
    /\ Move(s, IF ~Behind(sync[s].target) THEN Resting
               ELSE IF cursor.block >= 0
               THEN [sync[s] EXCEPT !.pc = "asking", !.block = cursor.block]
               ELSE [sync[s] EXCEPT !.pc = "listing", !.block = 0])
    /\ UNCHANGED <<fileVars, rewind, overlapped>>

(* blockHash of the block that the cursor named when the call was made.      *)
HashAnswered(s) ==
    /\ sync[s].pc = "asking"
    /\ Move(s, [sync[s] EXCEPT !.pc = "checking", !.hash = blockHash(sync[s].block)])
    /\ UNCHANGED <<fileVars, rewind, overlapped>>

(* The answer is compared with the hash the cursor has now, which another    *)
(* call may have moved: then this one throws too.                            *)
(* Mutation: the block of the cursor counts as the next one's predecessor. *)
fromBlockSkipping == cursor.block + 2
fromBlock == cursor.block + 1
CheckCursor(s) ==
    /\ sync[s].pc = "checking"
    /\ IF sync[s].hash # cursor.hash
       THEN rewind' = TRUE /\ Move(s, Resting)
       ELSE /\ Move(s, [sync[s] EXCEPT !.pc = "listing", !.block = fromBlock])
            /\ rewind' = rewind
    /\ UNCHANGED <<fileVars, overlapped>>

EventsAnswered(s) ==
    /\ sync[s].pc = "listing"
    /\ Move(s, [sync[s] EXCEPT !.pc = "adding",
                               !.batch = EventsIn(sync[s].block, sync[s].target)])
    /\ UNCHANGED <<fileVars, rewind, overlapped>>

(* store.add for each event, without an await between them; each add writes  *)
(* the file.  Then the hash of the target is asked for.                      *)
Added(batch) == [e \in Event |-> IF e \in batch THEN stored[e] + 1 ELSE stored[e]]
AddEvents(s) ==
    /\ sync[s].pc = "adding"
    /\ stored' = Added(sync[s].batch)
    /\ Move(s, [sync[s] EXCEPT !.pc = "hashing", !.batch = {}])
    /\ UNCHANGED <<chain, cursor, rewind, overlapped, crashes>>

TargetAnswered(s) ==
    /\ sync[s].pc = "hashing"
    /\ Move(s, [sync[s] EXCEPT !.pc = "pinning", !.hash = blockHash(sync[s].target)])
    /\ UNCHANGED <<fileVars, rewind, overlapped>>

(* The cursor, in memory and in its file, wherever it has gone meanwhile.    *)
PinCursor(s) ==
    /\ sync[s].pc = "pinning"
    /\ cursor' = [block |-> sync[s].target, hash |-> sync[s].hash]
    /\ Move(s, Resting)
    /\ UNCHANGED <<chain, stored, rewind, overlapped, crashes>>

(* The process dies, inside the loop of the adds too, and the next one       *)
(* reads both files.                                                         *)
Restart ==
    /\ crashes < MaxCrashes
    /\ \/ UNCHANGED stored
       \/ \E s \in Syncs : \E written \in SUBSET sync[s].batch :
             sync[s].pc = "adding" /\ stored' = Added(written)
    /\ sync' = [s \in Syncs |-> Resting]
    /\ crashes' = crashes + 1
    /\ UNCHANGED <<chain, cursor, rewind, overlapped>>

(* A call that is under way moves on.                                        *)
SyncStep(s) ==
    \/ Start(s) \/ HashAnswered(s) \/ CheckCursor(s) \/ EventsAnswered(s)
    \/ AddEvents(s) \/ TargetAnswered(s) \/ PinCursor(s)

IndexerNext ==
    NewBlock \/ ChainReorg \/ Restart \/ \E s \in Syncs : HeadAnswered(s) \/ SyncStep(s)

(* The reads of a call return.  That sync is called at all is up to its      *)
(* caller: nothing in the repository but a test does.                        *)
IndexerFairness == \A s \in Syncs : WF_indexerVars(SyncStep(s))

IndexerSpec == IndexerInit /\ [][IndexerNext]_indexerVars /\ IndexerFairness

-----------------------------------------------------------------------------
(* The cursor names a canonical block, and whatever it claims is there:      *)
(* every event of a block up to it is stored, and no other version of that   *)
(* block's events, although syncs overlap, the process dies between two adds *)
(* and unfinished blocks are reorganised meanwhile. And unless calls of sync *)
(* overlapped, none reports a reorganisation, and an event is stored once,   *)
(* and at most once more for each time the process died.                     *)
IndexIsExact ==
    /\ cursor.block >= 0 => cursor.hash = blockHash(cursor.block)
    /\ \A h \in 0..cursor.block : \A v \in 1..MaxVersion :
          stored[[block |-> h, version |-> v]] > 0 <=> v = chain[h + 1]
    /\ overlapped \/ (~rewind /\ \A e \in Event : stored[e] <= 1 + crashes)

(* Callers that call sync again and again, also after it threw.              *)
CalledAgain == \A s \in Syncs : WF_indexerVars(HeadAnswered(s))

(* Under such callers, a chain that stands still is indexed up to its last   *)
(* final block for good, whatever false alarms overlapping calls raise.      *)
CatchesUp ==
    CalledAgain /\ <>[](chainHead = MaxChainHead) =>
        <>[](cursor.block = MaxChainHead - confirmations)
=============================================================================
