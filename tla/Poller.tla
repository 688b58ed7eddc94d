------------------------------- MODULE Poller -------------------------------
(***************************************************************************)
(* The EVM log poller of indexer/indexer.go, from NewWithConfig through    *)
(* Run and poll, with the rows and the meta keys of the SQLite store it    *)
(* writes, the chain it reads, and process crashes between any two steps.  *)
(*                                                                         *)
(* A log is abstracted to the block it is in, the handler its topic0       *)
(* selects, the contract that emitted it and the one subject the handler   *)
(* keys on: a pool for a creation or a V4 swap, a market for a fill, a     *)
(* holder for a freeze.  Amounts, times and names belong to other modules. *)
(* A log's identity <<chain, position>> stands for txHash#logIndex.        *)
(***************************************************************************)
EXTENDS Integers, FiniteSets, Sequences

CONSTANTS
  NChains,        \* how many times a chain with a new genesis may be launched
  MaxHeight,      \* MaxHeight[c]: the height at which chain c stops growing
  History,        \* History[c]: every log chain c ever emits, in log order
  NConfigs,       \* how many address sets operators deploy, in this order
  Root,           \* Root[k][kind]: the contract config k trusts for a kind
  Subject,        \* pools, markets and holders
  Address,        \* contracts that emit logs
  StartBlock,     \* Config.StartBlock
  ReorgDepth,     \* reorgDepth (128 in the code)
  Confirmations,  \* regenesisConfirmations (3 in the code)
  BatchSpan,      \* 2000 in poll: a batch is at most BatchSpan + 1 blocks
  MaxFaults,      \* bound on crashes, recovered panics and failed statements
  LaggingLogs,    \* may eth_getLogs be served by a node behind eth_blockNumber's
  DropMayFail,    \* may a DELETE of DropDerived, or SetSource, return an error
  SourceMayFail,  \* may Source() fail to read the recorded source, and answer ""
  WriteMayFail,   \* may a handler's statement return an error, which is discarded
  Reverts,        \* may a restart go back to an earlier address set
  OldStores       \* stores a build that recorded no source may have left behind

Chains  == 1 .. NChains
Configs == 1 .. NConfigs
NoHash   == 0     \* genesisHash == ""
NoSource == 0     \* Source() == ""
NoChain  == 0     \* in readOf: blocks nobody vouches for
NoRow    == <<0, 0>>

CreateKinds == {"PairCreated", "PoolCreated"}
ScopedKinds == CreateKinds \cup {"InitializeV4", "SwapV4", "DEXFill"}
Kinds       == ScopedKinds \cup {"Swap", "AddressFrozen", "Action", "Inert"}
Log         == [block : Nat, kind : Kinds, emitter : Address, subject : Subject]

Positions(c) == DOMAIN History[c]
LogIds == UNION {{<<c, i>> : i \in Positions(c)} : c \in Chains}

\* The file NewStore opens: the cursor and the tables.
Store == [lastBlock : Nat, pools : SUBSET Subject, swaps : SUBSET LogIds,
          entities : SUBSET LogIds, tally : [Subject -> Nat],
          frozen : [Subject -> LogIds \cup {NoRow}]]

EmptyStore ==
  [lastBlock |-> 0, pools |-> {}, swaps |-> {}, entities |-> {},
   tally |-> [s \in Subject |-> 0], frozen |-> [s \in Subject |-> NoRow]]

ASSUME PollerConstants ==
  /\ NChains \in Nat \ {0}
  /\ NConfigs \in Nat \ {0}
  /\ MaxHeight \in [Chains -> Nat]
  /\ History \in [Chains -> Seq(Log)]
  /\ Root \in [Configs -> [ScopedKinds -> Address]]
  /\ StartBlock \in Nat
  /\ ReorgDepth \in Nat
  /\ Confirmations \in Nat \ {0}
  /\ BatchSpan \in Nat
  /\ MaxFaults \in Nat

ASSUME PollerSwitches ==
  {LaggingLogs, DropMayFail, SourceMayFail, WriteMayFail, Reverts} \subseteq BOOLEAN

\* An older build read the first chain.
ASSUME OldStoresAreStores ==
  \A o \in OldStores : o \in Store /\ \A s \in Subject : o.frozen[s][1] <= 1

\* eth_getLogs answers in block order.
ASSUME LogsInBlockOrder ==
  \A c \in Chains : \A i, j \in Positions(c) :
    i < j => History[c][i].block <= History[c][j].block

VARIABLES
  chain, height,                   \* the chain behind the RPC endpoint
  pc, cfg,                         \* the process: its step and its address set
  lastBlock, streak, genesis,      \* Indexer.lastBlock, lowHeadStreak, genesisHash
  latest, toBlock, logChain, todo, \* locals of poll; todo: logs not yet handled
  dropped,                         \* tables DropDerived has emptied
  dLast, source,                   \* meta keys lastBlock and source
  pools, swaps, entities,          \* tables, as sets of ids
  tally, frozen,                   \* Market.tradeCount, FrozenAccount snapshot
  headChain, readOf, boot,         \* history: chain of latest; chains the blocks
                                   \* below the cursor came from; chain at start
  kept,                            \* history: rows adopted under no known source
  faults

chainVars == <<chain, height>>
diskVars  == <<dLast, source, pools, swaps, entities, tally, frozen>>
localVars == <<latest, toBlock, logChain, todo, dropped, headChain>>
procVars  == <<cfg, lastBlock, streak, genesis, boot>>
vars == <<chainVars, pc, procVars, localVars, diskVars, kept, readOf, faults>>

LogAt(c, i) == History[c][i]

\* handlePairCreated, handlePoolCreated, isPoolManager: a log of a scoped kind
\* counts only when the configured contract emitted it.
Trusted(k, l) == l.emitter = Root[k][l.kind]

(***************************************************************************)
(* Starting the process: NewWithConfig                                     *)
(***************************************************************************)
\* The tables DropDerived deletes from that this module keeps, in its order.
Tables == <<"pools", "swaps", "entities", "lastBlock">>

Start(k) ==
  /\ pc = "down"
  /\ Reverts \/ k >= cfg
  /\ cfg' = k
  /\ boot' = chain
  /\ pc' = "open"
  /\ UNCHANGED <<chainVars, lastBlock, streak, genesis, localVars, diskVars, kept, readOf, faults>>

\* Mutant: a changed source is recorded and nothing is dropped.
OpenWithoutDrop ==
  /\ pc = "open"
  /\ source' = cfg
  /\ pc' = "load"
  /\ UNCHANGED <<chainVars, procVars, localVars, dLast, pools, swaps, entities,
                 tally, frozen, kept, readOf, faults>>

\* The store, whatever it holds, becomes the current address set's.
TakeOver ==
  /\ source' \in {cfg} \cup (IF DropMayFail THEN {source} ELSE {})
  /\ kept' = IF source = cfg THEN kept ELSE [pools |-> pools, swaps |-> swaps]
  /\ readOf' = IF source = cfg \/ dLast = 0 THEN readOf ELSE readOf \cup {NoChain}
  /\ pc' = "load"

\* An unrecorded source, or one Source() could not read, is taken over with nothing
\* dropped; an equal one is kept, and any other is dropped.
Open ==
  /\ pc = "open"
  /\ \/ /\ source = NoSource
        /\ TakeOver
        /\ UNCHANGED faults
     \/ /\ SourceMayFail /\ faults < MaxFaults
        /\ faults' = faults + 1
        /\ TakeOver
     \/ /\ source = cfg
        /\ pc' = "load"
        /\ UNCHANGED <<source, kept, readOf, faults>>
     \/ /\ source \notin {NoSource, cfg}
        /\ pc' = "drop"
        /\ UNCHANGED <<source, kept, readOf, faults>>
  /\ UNCHANGED <<chainVars, procVars, localVars, dLast, pools, swaps, entities,
                 tally, frozen>>

DropTable ==
  /\ pc = "drop"
  /\ dropped < Len(Tables)
  /\ dropped' = dropped + 1
  /\ LET t == Tables[dropped + 1] IN
       /\ pools'    = IF t = "pools" THEN {} ELSE pools
       /\ swaps'    = IF t = "swaps" THEN {} ELSE swaps
       /\ entities' = IF t = "entities" THEN {} ELSE entities
       /\ tally'    = IF t = "entities" THEN [s \in Subject |-> 0] ELSE tally
       /\ frozen'   = IF t = "entities" THEN [s \in Subject |-> NoRow] ELSE frozen
       /\ dLast'    = IF t = "lastBlock" THEN 0 ELSE dLast
       /\ readOf'   = IF t = "lastBlock" THEN {} ELSE readOf
  /\ UNCHANGED <<chainVars, pc, procVars, latest, toBlock, logChain, todo, headChain,
                 source, kept, faults>>

\* NewWithConfig logs an error of DropDerived and records the new source anyway.
Adopt ==
  /\ pc = "drop"
  /\ dropped = Len(Tables) \/ DropMayFail
  /\ source' \in {cfg} \cup (IF DropMayFail THEN {source} ELSE {})
  /\ kept' = [pools |-> {}, swaps |-> {}]
  /\ dropped' = 0
  /\ pc' = "load"
  /\ UNCHANGED <<chainVars, procVars, latest, toBlock, logChain, todo, headChain,
                 dLast, pools, swaps, entities, tally, frozen, readOf, faults>>

\* Mutant: the stored cursor is taken for the next block to read.
LoadNextBlock ==
  /\ pc = "load"
  /\ lastBlock' = IF dLast < StartBlock THEN StartBlock ELSE dLast + 1
  /\ pc' = "idle"
  /\ UNCHANGED <<chainVars, cfg, streak, genesis, boot, localVars, diskVars, kept, readOf, faults>>

Load ==
  /\ pc = "load"
  /\ lastBlock' = IF dLast < StartBlock THEN StartBlock ELSE dLast
  /\ pc' = "idle"
  /\ UNCHANGED <<chainVars, cfg, streak, genesis, boot, localVars, diskVars, kept, readOf, faults>>

(***************************************************************************)
(* One poll.  Every RPC is a step, so the chain moves between them.        *)
(***************************************************************************)
\* poll returns: its locals die with it.
Return ==
  /\ pc' = "idle"
  /\ latest' = 0 /\ toBlock' = 0 /\ logChain' = 0 /\ headChain' = 0
  /\ todo' = {}
  /\ UNCHANGED dropped

\* eth_blockNumber, answered by a node that may be behind the chain's head.
ReadHead(h) ==
  /\ pc = "idle"
  /\ latest' = h
  /\ headChain' = chain
  /\ pc' = "baseline"
  /\ UNCHANGED <<chainVars, procVars, toBlock, logChain, todo, dropped, diskVars,
                 kept, readOf, faults>>

\* Mutant: the baseline is refreshed by every poll.
EnsureGenesisHashAlways ==
  /\ pc = "baseline"
  /\ genesis' \in {genesis, chain}
  /\ pc' = "reset"
  /\ UNCHANGED <<chainVars, cfg, lastBlock, streak, boot, localVars, diskVars, kept, readOf, faults>>

\* ensureGenesisHash: a failed probe leaves the baseline unset.
EnsureGenesisHash ==
  /\ pc = "baseline"
  /\ genesis' \in IF genesis = NoHash THEN {NoHash, chain} ELSE {genesis}
  /\ pc' = "reset"
  /\ UNCHANGED <<chainVars, cfg, lastBlock, streak, boot, localVars, diskVars, kept, readOf, faults>>

FarBelow(h) ==
  /\ lastBlock > StartBlock + ReorgDepth
  /\ h + ReorgDepth < lastBlock

\* maybeResetForRegenesis up to its probe: the low-head streak, which is only
\* ever compared with Confirmations and is capped there.
CountLowHead ==
  /\ pc = "reset"
  /\ \/ /\ ~FarBelow(latest)
        /\ streak' = 0
        /\ pc' = "range"
     \/ /\ FarBelow(latest)
        /\ streak' = IF streak < Confirmations THEN streak + 1 ELSE streak
        /\ pc' = IF streak + 1 < Confirmations THEN "range" ELSE "probe"
  /\ UNCHANGED <<chainVars, cfg, lastBlock, genesis, boot, localVars, diskVars, kept, readOf, faults>>

ProbeFails ==
  /\ pc = "probe"
  /\ pc' = "range"
  /\ UNCHANGED <<chainVars, procVars, localVars, diskVars, kept, readOf, faults>>

\* Mutant: a baseline never read counts as a different one.
ProbeUnsetDiffers ==
  /\ pc = "probe"
  /\ \/ /\ genesis = chain
        /\ pc' = "range"
        /\ UNCHANGED lastBlock
     \/ /\ genesis # chain
        /\ lastBlock' = StartBlock
        /\ pc' = "rewind"
  /\ genesis' = chain
  /\ streak' = 0
  /\ UNCHANGED <<chainVars, cfg, boot, localVars, diskVars, kept, readOf, faults>>

\* The probe answers with the genesis hash of the chain running now.
Probe ==
  /\ pc = "probe"
  /\ \/ /\ genesis = NoHash
        /\ genesis' = chain
        /\ pc' = "range"
        /\ UNCHANGED <<lastBlock, streak>>
     \/ /\ genesis = chain
        /\ streak' = 0
        /\ pc' = "range"
        /\ UNCHANGED <<lastBlock, genesis>>
     \/ /\ genesis \notin {NoHash, chain}
        /\ lastBlock' = StartBlock
        /\ genesis' = chain
        /\ streak' = 0
        /\ pc' = "rewind"
  /\ UNCHANGED <<chainVars, cfg, boot, localVars, diskVars, kept, readOf, faults>>

\* Mutant: the rewind goes one reorg below the head, and below zero.
PersistRewindBelowHead ==
  /\ pc = "rewind"
  /\ dLast' = latest - ReorgDepth
  /\ readOf' = {}
  /\ pc' = "range"
  /\ UNCHANGED <<chainVars, procVars, localVars, source, pools, swaps, entities,
                 tally, frozen, kept, faults>>

\* SetLastBlock(startBlock), still inside maybeResetForRegenesis.
PersistRewind ==
  /\ pc = "rewind"
  /\ dLast' = StartBlock
  /\ readOf' = {}
  /\ pc' = "range"
  /\ UNCHANGED <<chainVars, procVars, localVars, source, pools, swaps, entities,
                 tally, frozen, kept, faults>>

NothingNew ==
  /\ pc = "range"
  /\ latest <= lastBlock
  /\ Return
  /\ UNCHANGED <<chainVars, procVars, diskVars, kept, readOf, faults>>

BatchEnd ==
  LET fromBlock == lastBlock + 1 IN
    IF latest - fromBlock > BatchSpan THEN fromBlock + BatchSpan ELSE latest

\* eth_getLogs and stampTimes both answered, by a node whose head is h.
GetLogs(h) ==
  /\ pc = "range"
  /\ latest > lastBlock
  /\ LaggingLogs \/ h = height
  /\ toBlock' = BatchEnd
  /\ logChain' = chain
  /\ todo' = {i \in Positions(chain) :
                /\ LogAt(chain, i).block \in (lastBlock + 1) .. BatchEnd
                /\ LogAt(chain, i).block <= h}
  /\ pc' = "work"
  /\ UNCHANGED <<chainVars, procVars, latest, dropped, headChain, diskVars, kept, readOf, faults>>

\* eth_getLogs or stampTimes returned an error: the poll ends where it began.
FetchFails ==
  /\ pc = "range"
  /\ latest > lastBlock
  /\ Return
  /\ UNCHANGED <<chainVars, procVars, diskVars, kept, readOf, faults>>

(***************************************************************************)
(* processLog: the handlers, one log at a time, in log order               *)
(***************************************************************************)
Front(i) ==
  /\ i \in todo
  /\ \A j \in todo : i <= j

\* The log at the front is of one of these kinds and leaves the batch with this step,
Take(i, kinds) ==
  /\ pc = "work"
  /\ Front(i)
  /\ LogAt(logChain, i).kind \in kinds
  /\ todo' = todo \ {i}
  /\ UNCHANGED <<chainVars, pc, procVars, latest, toBlock, logChain, dropped, headChain,
                 dLast, source, kept>>

\* every statement of its handler carried out,
Handle(i, kinds) == Take(i, kinds) /\ UNCHANGED <<readOf, faults>>

\* or not: nobody vouches any more for the blocks below the cursor.
Lose(i, kinds) ==
  /\ WriteMayFail
  /\ faults < MaxFaults
  /\ faults' = faults + 1
  /\ readOf' = readOf \cup {NoChain}
  /\ Take(i, kinds)

HandleCreated(i) ==
  LET l == LogAt(logChain, i) IN
    /\ Handle(i, CreateKinds)
    /\ pools' = IF Trusted(cfg, l) THEN pools \cup {l.subject} ELSE pools
    /\ UNCHANGED <<swaps, entities, tally, frozen>>

\* Mutant: the Market row overwrites the stub.
InitializeOverStub(i) ==
  LET l == LogAt(logChain, i) IN
    /\ Handle(i, {"InitializeV4"})
    /\ pools' = IF Trusted(cfg, l) THEN pools \cup {l.subject} ELSE pools
    /\ tally' = IF Trusted(cfg, l) THEN [tally EXCEPT ![l.subject] = 0] ELSE tally
    /\ UNCHANGED <<swaps, entities, frozen>>

\* The Market row is merged with any stub a fill left, so its tally stays.
HandleInitializeV4(i) ==
  LET l == LogAt(logChain, i) IN
    /\ Handle(i, {"InitializeV4"})
    /\ pools' = IF Trusted(cfg, l) THEN pools \cup {l.subject} ELSE pools
    /\ UNCHANGED <<swaps, entities, tally, frozen>>

\* handleSwapV2 and handleSwapV3: the emitter must be a pool in the store.
HandleSwap(i) ==
  LET l == LogAt(logChain, i) IN
    /\ Handle(i, {"Swap"})
    /\ swaps' = IF l.emitter \in pools THEN swaps \cup {<<logChain, i>>} ELSE swaps
    /\ UNCHANGED <<pools, entities, tally, frozen>>

HandleSwapV4(i) ==
  LET l == LogAt(logChain, i) IN
    /\ Handle(i, {"SwapV4"})
    /\ swaps' = IF Trusted(cfg, l) THEN swaps \cup {<<logChain, i>>} ELSE swaps
    /\ UNCHANGED <<pools, entities, tally, frozen>>

\* Mutant: a fill that has its row already is taken for done.
IgnoreSeenFill(i) ==
  /\ Handle(i, {"DEXFill"})
  /\ ~Trusted(cfg, LogAt(logChain, i)) \/ <<logChain, i>> \in entities
  /\ UNCHANGED <<pools, swaps, entities, tally, frozen>>

\* A DEXFill another contract emitted is dropped.
IgnoreFill(i) ==
  /\ Handle(i, {"DEXFill"})
  /\ ~Trusted(cfg, LogAt(logChain, i))
  /\ UNCHANGED <<pools, swaps, entities, tally, frozen>>

\* writeFill, first write: the Fill entity, keyed by the log's identity.
WriteFill(i) ==
  /\ pc = "work"
  /\ Front(i)
  /\ LogAt(logChain, i).kind = "DEXFill"
  /\ Trusted(cfg, LogAt(logChain, i))
  /\ entities' = entities \cup {<<logChain, i>>}
  /\ pc' = "rollup"
  /\ UNCHANGED <<chainVars, procVars, localVars, dLast, source, pools, swaps, tally,
                 frozen, kept, readOf, faults>>

\* writeFill, second write: the Market row is read, bumped and written back.
RollUpFill(i) ==
  /\ pc = "rollup"
  /\ Front(i)
  /\ tally' = [tally EXCEPT ![LogAt(logChain, i).subject] = @ + 1]
  /\ todo' = todo \ {i}
  /\ pc' = "work"
  /\ UNCHANGED <<chainVars, procVars, latest, toBlock, logChain, dropped, headChain,
                 dLast, source, pools, swaps, entities, frozen, kept, readOf, faults>>

\* Mutant: the first snapshot of a holder wins.
FrozenFirstWins(i) ==
  LET s == LogAt(logChain, i).subject IN
    /\ Handle(i, {"AddressFrozen"})
    /\ entities' = entities \cup {<<logChain, i>>}
    /\ frozen' = IF frozen[s] = NoRow THEN [frozen EXCEPT ![s] = <<logChain, i>>] ELSE frozen
    /\ UNCHANGED <<pools, swaps, tally>>

\* handleAddressFrozen, handleTokensFrozen: the action row and the snapshot.
HandleFrozen(i) ==
  /\ Handle(i, {"AddressFrozen"})
  /\ entities' = entities \cup {<<logChain, i>>}
  /\ frozen' = [frozen EXCEPT ![LogAt(logChain, i).subject] = <<logChain, i>>]
  /\ UNCHANGED <<pools, swaps, tally>>

\* Every other securities handler writes one row keyed by the log.
HandleAction(i) ==
  /\ Handle(i, {"Action"})
  /\ entities' = entities \cup {<<logChain, i>>}
  /\ UNCHANGED <<pools, swaps, tally, frozen>>

\* Mint, burn, sync and the rest: no row of this module.
HandleInert(i) ==
  /\ Handle(i, {"Inert"})
  /\ UNCHANGED <<pools, swaps, entities, tally, frozen>>

\* Any handler whose INSERTs the database refused: the store drops the error.
LoseWrite(i) ==
  /\ Lose(i, Kinds \ {"Inert"})
  /\ UNCHANGED <<pools, swaps, entities, tally, frozen>>

\* A freeze of which the action row or the snapshot was refused.
LoseHalfFrozen(i) ==
  /\ Lose(i, {"AddressFrozen"})
  /\ \/ entities' = entities \cup {<<logChain, i>>} /\ frozen' = frozen
     \/ /\ frozen' = [frozen EXCEPT ![LogAt(logChain, i).subject] = <<logChain, i>>]
        /\ entities' = entities
  /\ UNCHANGED <<pools, swaps, tally>>

\* A fill of which the Fill row or the Market row was refused, or whose Market row could
\* not be read, so that a stub with a count of one replaces it.
LoseHalfFill(i) ==
  LET l == LogAt(logChain, i) IN
    /\ Lose(i, {"DEXFill"})
    /\ Trusted(cfg, l)
    /\ \/ entities' = entities /\ tally' = [tally EXCEPT ![l.subject] = @ + 1]
       \/ /\ entities' = entities \cup {<<logChain, i>>}
          /\ tally' \in {tally, [tally EXCEPT ![l.subject] = 1]}
    /\ UNCHANGED <<pools, swaps, frozen>>

\* Every log handled: the cursor moves in memory ...
Advance ==
  /\ pc = "work"
  /\ todo = {}
  /\ lastBlock' = toBlock
  /\ readOf' = readOf \cup {headChain, logChain}
  /\ pc' = "persist"
  /\ UNCHANGED <<chainVars, cfg, streak, genesis, boot, localVars, diskVars, kept, faults>>

\* ... and then in the store.
Persist ==
  /\ pc = "persist"
  /\ dLast' = lastBlock
  /\ Return
  /\ UNCHANGED <<chainVars, procVars, source, pools, swaps, entities, tally, frozen,
                 kept, readOf, faults>>

(***************************************************************************)
(* Faults and the chain                                                    *)
(***************************************************************************)
\* pollGuarded recovers a handler's panic: the batch is abandoned.
Panic ==
  /\ pc \in {"work", "rollup"}
  /\ faults < MaxFaults
  /\ faults' = faults + 1
  /\ Return
  /\ UNCHANGED <<chainVars, procVars, diskVars, kept, readOf>>

\* The process stops between two steps; only the store survives.
Crash ==
  /\ pc # "down"
  /\ faults < MaxFaults
  /\ faults' = faults + 1
  /\ pc' = "down"
  /\ lastBlock' = StartBlock
  /\ streak' = 0
  /\ genesis' = NoHash
  /\ latest' = 0 /\ toBlock' = 0 /\ logChain' = 0 /\ headChain' = 0
  /\ todo' = {}
  /\ dropped' = 0
  /\ UNCHANGED <<chainVars, cfg, boot, diskVars, kept, readOf>>

Mine ==
  /\ height < MaxHeight[chain]
  /\ height' = height + 1
  /\ UNCHANGED <<chain, pc, procVars, localVars, diskVars, kept, readOf, faults>>

\* A new chain, with a new genesis hash, behind the same endpoint.
Relaunch ==
  /\ chain < NChains
  /\ chain' = chain + 1
  /\ height' = 0
  /\ UNCHANGED <<pc, procVars, localVars, diskVars, kept, readOf, faults>>

\* The file is new, or was left by a build that recorded no source.
Init ==
  /\ chain = 1 /\ height = 0
  /\ pc = "down" /\ cfg = 1
  /\ lastBlock = StartBlock /\ streak = 0 /\ genesis = NoHash
  /\ latest = 0 /\ toBlock = 0 /\ logChain = 0 /\ todo = {} /\ dropped = 0
  /\ source = NoSource
  /\ \E o \in OldStores \cup {EmptyStore} :
       /\ dLast = o.lastBlock
       /\ pools = o.pools /\ swaps = o.swaps /\ entities = o.entities
       /\ tally = o.tally /\ frozen = o.frozen
       /\ readOf = IF o.lastBlock = 0 THEN {} ELSE {NoChain}
  /\ kept = [pools |-> {}, swaps |-> {}]
  /\ headChain = 0 /\ boot = 1
  /\ faults = 0

ProcessLog ==
  \E i \in todo :
    \/ HandleCreated(i) \/ HandleInitializeV4(i) \/ HandleSwap(i) \/ HandleSwapV4(i)
    \/ IgnoreFill(i) \/ WriteFill(i) \/ RollUpFill(i)
    \/ HandleFrozen(i) \/ HandleAction(i) \/ HandleInert(i)
    \/ LoseWrite(i) \/ LoseHalfFrozen(i) \/ LoseHalfFill(i)

Poll ==
  \/ \E h \in 0 .. height : ReadHead(h)
  \/ EnsureGenesisHash
  \/ CountLowHead \/ ProbeFails \/ Probe \/ PersistRewind
  \/ NothingNew
  \/ \E h \in 0 .. height : GetLogs(h)
  \/ FetchFails
  \/ ProcessLog
  \/ Advance \/ Persist

Startup == (\E k \in Configs : Start(k)) \/ Open \/ DropTable \/ Adopt \/ Load

Next == Startup \/ Poll \/ Panic \/ Crash \/ Mine \/ Relaunch

Spec == Init /\ [][Next]_vars

\* The ticker keeps firing and the process is restarted; the endpoint does not
\* fail, lag or drop the probe for ever.
Fairness ==
  /\ WF_vars(Startup)
  /\ WF_vars(Poll)
  /\ SF_vars(ReadHead(height))
  /\ SF_vars(EnsureGenesisHash /\ genesis' # NoHash)
  /\ SF_vars(Probe)
  /\ SF_vars(GetLogs(height))

FairSpec == Spec /\ Fairness

\* The relaunch falls between two polls of a running process that has a baseline
\* and a cursor more than a reorg above anything the new chain reaches.
LongLived ==
  chain' # chain =>
    /\ pc = "idle"
    /\ genesis = chain
    /\ lastBlock > StartBlock + ReorgDepth
    /\ MaxHeight[chain'] + ReorgDepth < lastBlock

LiveSpec == Init /\ [][Next /\ LongLived]_vars /\ Fairness

(***************************************************************************)
(* Properties                                                              *)
(***************************************************************************)
Opening == {"down", "open", "drop", "load"}
Working == {"work", "rollup", "persist"}
Polling == Working \cup {"baseline", "reset", "probe", "rewind", "range"}
Steps   == Opening \cup Polling \cup {"idle"}

\* Type correctness of the process, a poll's locals and the tables (Indexer, Store).
TypeOK ==
  /\ chain \in Chains /\ height \in Nat
  /\ pc \in Steps /\ cfg \in Configs
  /\ lastBlock \in Nat /\ streak \in 0 .. Confirmations /\ genesis \in Chains \cup {NoHash}
  /\ latest \in Nat /\ toBlock \in Nat /\ dropped \in 0 .. Len(Tables)
  /\ headChain \in Chains \cup {0} /\ logChain \in Chains \cup {0}
  /\ pc \in Polling => headChain \in Chains
  /\ pc \in Working => logChain \in Chains
  /\ todo \subseteq (IF logChain = 0 THEN {} ELSE Positions(logChain))
  /\ dLast \in Nat /\ source \in Configs \cup {NoSource}
  /\ pools \subseteq Subject
  /\ swaps \subseteq LogIds /\ entities \subseteq LogIds
  /\ tally \in [Subject -> Nat]
  /\ frozen \in [Subject -> LogIds \cup {NoRow}]
  /\ readOf \subseteq Chains \cup {NoChain} /\ boot \in Chains
  /\ kept \in [pools : SUBSET Subject, swaps : SUBSET LogIds]
  /\ faults \in 0 .. MaxFaults

\* Was pool p announced, to config k, before position i of chain c?
AnnouncedBefore(k, c, i, p) ==
  \E j \in Positions(c) :
    /\ j < i
    /\ LogAt(c, j).block > StartBlock
    /\ LogAt(c, j).kind \in CreateKinds
    /\ Trusted(k, LogAt(c, j))
    /\ LogAt(c, j).subject = p

Rows == [pools |-> pools, swaps |-> swaps, entities |-> entities]

\* What config k owes to rows r for log i of chain c.
Applied(k, c, i, r) ==
  LET l == LogAt(c, i) IN
    /\ l.kind \in CreateKinds \cup {"InitializeV4"} /\ Trusted(k, l) => l.subject \in r.pools
    /\ l.kind = "Swap" /\ AnnouncedBefore(k, c, i, l.emitter) => <<c, i>> \in r.swaps
    /\ l.kind = "SwapV4" /\ Trusted(k, l) => <<c, i>> \in r.swaps
    /\ l.kind = "DEXFill" /\ Trusted(k, l) => <<c, i>> \in r.entities
    /\ l.kind \in {"AddressFrozen", "Action"} => <<c, i>> \in r.entities

\* Rows r hold every block after StartBlock up to n of chain c, whole.
ReadWhole(k, c, n, r) ==
  \A i \in Positions(c) : LogAt(c, i).block \in (StartBlock + 1) .. n => Applied(k, c, i, r)

\* blocks.go: "A block is indexed when it has been read WHOLE."  Whatever
\* crashes, abandoned batches, failed reads and restarts under a new address
\* set came before, if all blocks below the cursor came from one chain, and none
\* by way of an adopted cursor or a refused write, then every log of theirs this
\* config trusts has its row, in memory's view and in what a restart would load.
IndexedWhole ==
  \A c \in Chains :
    (readOf \subseteq {c} /\ source = cfg /\ pc # "drop") =>
      /\ ReadWhole(cfg, c, dLast, Rows)
      /\ pc \notin Opening => ReadWhole(cfg, c, lastBlock, Rows)

\* The logs after StartBlock of the running chain, with the block each is in.
Owed ==
  [i \in {j \in Positions(chain) : LogAt(chain, j).block > StartBlock} |-> LogAt(chain, i).block]

\* Those that have their rows; a store that records another source counts as empty,
Recorded == IF source = cfg THEN {i \in Positions(chain) : Applied(cfg, chain, i, Rows)} ELSE {}

\* and a stored cursor that passed blocks of another chain, as unread.
ReadTo == IF source = cfg /\ readOf \subseteq {chain} THEN dLast ELSE 0

Mirrored == INSTANCE Mirror WITH
  Base <- StartBlock, book <- <<chain, cfg>>, due <- Owed, has <- Recorded, cursor <- ReadTo

\* poll, NewWithConfig and maybeResetForRegenesis: what a restart would load is a mirror of
\* the running chain.  The stored cursor passes a block only with all its rows, goes back
\* only to StartBlock, and no crash, panic, replayed batch or restart takes a row
\* away from a book that is still the store's.
BookMirrored == Mirrored!Spec

\* A factory this config trusts announced p, on some chain this store has seen.
Sanctioned(k, p) ==
  \E c \in Chains : \E j \in Positions(c) :
    /\ LogAt(c, j).kind \in CreateKinds \cup {"InitializeV4"}
    /\ Trusted(k, LogAt(c, j))
    /\ LogAt(c, j).subject = p

\* Config k answers for pool p or swap s, or could not tell whose it was when it
\* adopted the store, or got it from a pool it so adopted.
PoolOf(k, p) == Sanctioned(k, p) \/ p \in kept.pools
SwapOf(k, s) ==
  LET l == LogAt(s[1], s[2]) IN
    \/ l.kind = "Swap" /\ PoolOf(k, l.emitter)
    \/ l.kind = "SwapV4" /\ Trusted(k, l)
    \/ s \in kept.swaps

\* NewWithConfig: the source is part of the store's identity.  Once the poller
\* runs, every pool and every swap in the store belongs to its address set, or is of
\* the rows it took over when the store named no source; a source that was named
\* and differs leaves nothing behind, not even what was taken over under it.
BookMatchesSource ==
  pc \notin Opening =>
    /\ \A p \in pools : PoolOf(cfg, p)
    /\ \A s \in swaps : SwapOf(cfg, s)

\* store_sqlite.go on a store without a source: "indistinguishable from a store built
\* by another set, and is treated as one", which is to drop what it holds.  Once the
\* poller runs, no pool in the store is of another address set's book.
UnknownIsDropped ==
  pc \notin Opening => \A p \in pools : Sanctioned(cfg, p)

FillsBelow(k, c, m, n) ==
  {i \in Positions(c) :
     /\ LogAt(c, i).kind = "DEXFill" /\ Trusted(k, LogAt(c, i))
     /\ LogAt(c, i).subject = m
     /\ LogAt(c, i).block \in (StartBlock + 1) .. n}

\* writeFill and handleInitializeV4: a market's tradeCount never loses a fill
\* below the cursor, although the Fill and the Market are two writes, a batch may
\* be abandoned between them, and an Initialize may follow the market's fills
\* (where none came by way of an adopted cursor or a refused write).
TallyCovers ==
  pc \notin Opening =>
    \A c \in Chains : readOf \subseteq {c} =>
      \A m \in Subject : tally[m] >= Cardinality(FillsBelow(cfg, c, m, lastBlock))

\* While nothing has been read twice, tradeCount is the number of Fill rows.
TallyExact ==
  pc # "rollup" =>
    \A m \in Subject :
      tally[m] = Cardinality({e \in entities :
                    LogAt(e[1], e[2]).kind = "DEXFill" /\ LogAt(e[1], e[2]).subject = m})

\* handleAddressFrozen: the live snapshot of a holder is never older than the
\* last freeze event below the cursor, although a replayed batch rewrites it (where
\* no block came by way of an adopted cursor or a refused write).
SnapshotNotBehind ==
  pc \notin Opening =>
    \A c \in Chains : readOf = {c} =>
      \A i \in Positions(c) :
        LET l == LogAt(c, i)
            row == frozen[l.subject]
        IN (l.kind = "AddressFrozen" /\ l.block \in (StartBlock + 1) .. lastBlock) =>
             row[1] > c \/ (row[1] = c /\ row[2] >= i)

\* maybeResetForRegenesis: however long a lagging endpoint reports a low head,
\* the cursor never moves back unless the chain really was relaunched since this
\* process started.
RewindOnlyAfterRelaunch ==
  [][(pc' # "down" /\ lastBlock' < lastBlock) => chain # boot]_vars

\* maybeResetForRegenesis: without the rewind "the new chain would never index".
\* When the chain stops changing, the poller ends up at its head, with every
\* block below the cursor read from that chain.
CatchesUp ==
  <>[](pc \notin Opening /\ lastBlock = height /\ readOf \subseteq {chain})

=============================================================================
