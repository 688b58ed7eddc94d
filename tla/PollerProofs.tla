---------------------------- MODULE PollerProofs ----------------------------
(***************************************************************************)
(* What Poller guarantees for every chain history, address set, start      *)
(* block, reorg depth, streak length, batch size and number of faults.     *)
(***************************************************************************)
EXTENDS Poller, FiniteSetTheorems, TLAPS

\* What a log's identity is.
LEMMA LogIdsIntro == \A c \in Chains : \A i \in Positions(c) : <<c, i>> \in LogIds
  BY DEF LogIds

\* Positions are numbers, so Front picks one.
LEMMA PositionsInNat == \A c \in Chains : Positions(c) \subseteq Nat
  BY PollerConstants DEF Positions

\* A position of a chain holds a log.
LEMMA LogAtType ==
  \A c \in Chains : \A i \in Positions(c) : LogAt(c, i) \in Log
  BY PollerConstants DEF Positions, LogAt

\* The types of every variable are preserved by every step of the poller, the
\* chain and the faults.
LEMMA TypeStep == TypeOK /\ [Next]_vars => TypeOK'
<1> USE PollerConstants DEF TypeOK, Chains, Configs, NoHash, NoSource, Steps, Opening, Polling, Working,
        chainVars, diskVars, localVars, procVars, vars
<1> SUFFICES ASSUME TypeOK, [Next]_vars PROVE TypeOK'
  OBVIOUS
<1>1. ASSUME NEW k \in Configs, Start(k) PROVE TypeOK'
  BY <1>1 DEF Start
<1>2. CASE Open
  <2>1. /\ source' = source \/ source' = cfg
        /\ kept' = kept \/ kept' = [pools |-> pools, swaps |-> swaps]
        /\ readOf' = readOf \/ readOf' = readOf \cup {NoChain}
        /\ faults' = faults \/ (faults < MaxFaults /\ faults' = faults + 1)
        /\ pc = "open" /\ pc' \in {"load", "drop"}
        /\ UNCHANGED <<chainVars, procVars, localVars, dLast, pools, swaps, entities,
                       tally, frozen>>
    BY <1>2 DEF Open, TakeOver
  <2>2. kept' \in [pools : SUBSET Subject, swaps : SUBSET LogIds]
    BY <2>1
  <2>3. source' \in Configs \cup {NoSource} /\ readOf' \subseteq Chains \cup {NoChain}
    BY <2>1
  <2>4. faults' \in 0 .. MaxFaults
    BY <2>1
  <2> QED
    BY <2>1, <2>2, <2>3, <2>4
<1>3. CASE DropTable
  <2>1. Len(Tables) = 4
    BY DEF Tables
  <2>2. /\ pools' \in {{}, pools} /\ swaps' \in {{}, swaps}
        /\ entities' \in {{}, entities}
        /\ tally' \in {[s \in Subject |-> 0], tally}
        /\ frozen' \in {[s \in Subject |-> NoRow], frozen}
        /\ dLast' = 0 \/ dLast' = dLast
        /\ readOf' = {} \/ readOf' = readOf
    BY <1>3 DEF DropTable
  <2>3. dropped' \in 0 .. Len(Tables)
    BY <1>3, <2>1 DEF DropTable
  <2>4. pools' \subseteq Subject /\ swaps' \subseteq LogIds /\ entities' \subseteq LogIds
    BY <2>2
  <2>5. tally' \in [Subject -> Nat] /\ frozen' \in [Subject -> LogIds \cup {NoRow}]
    BY <2>2
  <2>6. /\ dLast' \in Nat
        /\ readOf' \subseteq Chains \cup {NoChain}
    <3>1. dLast' \in Nat
      <4>1. dLast \in Nat /\ (dLast' = 0 \/ dLast' = dLast)
        BY <2>2
      <4> HIDE DEF TypeOK
      <4> QED
        BY <4>1
    <3>2. readOf' \subseteq Chains \cup {NoChain}
      BY <2>2
    <3> QED
      BY <3>1, <3>2
  <2>7. UNCHANGED <<chainVars, pc, procVars, latest, toBlock, logChain, todo, headChain,
                    source, kept, faults>>
    BY <1>3 DEF DropTable
  <2> QED
    BY <2>3, <2>4, <2>5, <2>6, <2>7
<1>4. CASE Adopt
  BY <1>4 DEF Adopt, Tables
<1>5. CASE Load
  BY <1>5 DEF Load
<1>6. ASSUME NEW h \in 0 .. height, ReadHead(h) PROVE TypeOK'
  BY <1>6 DEF ReadHead
<1>7. CASE EnsureGenesisHash
  BY <1>7 DEF EnsureGenesisHash
<1>8. CASE CountLowHead
  <2>1. streak' \in 0 .. Confirmations /\ pc' \in {"range", "probe"}
    BY <1>8 DEF CountLowHead
  <2> QED
    BY <1>8, <2>1 DEF CountLowHead
<1>9. CASE ProbeFails
  BY <1>9 DEF ProbeFails
<1>10. CASE Probe
  <2>1. /\ pc' \in {"range", "rewind"}
        /\ lastBlock' = lastBlock \/ lastBlock' = StartBlock
        /\ streak' = streak \/ streak' = 0
        /\ genesis' = genesis \/ genesis' = chain
        /\ UNCHANGED <<chainVars, cfg, boot, localVars, diskVars, kept, readOf, faults>> /\ pc = "probe"
    BY <1>10 DEF Probe
  <2>2. lastBlock' \in Nat /\ genesis' \in Chains \cup {NoHash}
    BY <2>1
  <2>3. streak' \in 0 .. Confirmations
    <3>1. streak \in 0 .. Confirmations /\ 0 \in 0 .. Confirmations
      OBVIOUS
    <3> HIDE DEF TypeOK
    <3> QED
      BY <2>1, <3>1
  <2> QED
    BY <2>1, <2>2, <2>3
<1>11. CASE PersistRewind
  BY <1>11 DEF PersistRewind
<1>12. CASE NothingNew
  BY <1>12 DEF NothingNew, Return
<1>13. ASSUME NEW h \in 0 .. height, GetLogs(h) PROVE TypeOK'
  BY <1>13 DEF GetLogs, BatchEnd
<1>14. CASE FetchFails
  BY <1>14 DEF FetchFails, Return
<1>15. CASE Advance
  BY <1>15 DEF Advance
<1>16. CASE Persist
  BY <1>16 DEF Persist, Return
<1>17. CASE Panic
  BY <1>17 DEF Panic, Return
<1>18. CASE Crash
  BY <1>18 DEF Crash, Tables
<1>19. CASE Mine
  BY <1>19 DEF Mine
<1>20. CASE Relaunch
  BY <1>20 DEF Relaunch
<1>21. CASE UNCHANGED vars
  BY <1>21
<1>22. ASSUME NEW i \in todo, pc \in {"work", "rollup"} PROVE
         /\ logChain \in Chains /\ i \in Positions(logChain)
         /\ LogAt(logChain, i).subject \in Subject /\ <<logChain, i>> \in LogIds
  <2>1. logChain \in Chains /\ i \in Positions(logChain)
    BY <1>22
  <2>2. LogAt(logChain, i) \in Log
    BY <2>1, LogAtType
  <2> QED
    BY <2>1, <2>2, LogIdsIntro DEF Log
<1>23. ASSUME NEW i \in todo, HandleCreated(i) \/ HandleInitializeV4(i) PROVE TypeOK'
  BY <1>22, <1>23 DEF HandleCreated, HandleInitializeV4, Handle, Take, Lose
<1>24. ASSUME NEW i \in todo, HandleSwap(i) \/ HandleSwapV4(i) PROVE TypeOK'
  BY <1>22, <1>24 DEF HandleSwap, HandleSwapV4, Handle, Take, Lose
<1>25. ASSUME NEW i \in todo, IgnoreFill(i) \/ HandleInert(i) \/ HandleAction(i) PROVE TypeOK'
  BY <1>22, <1>25 DEF IgnoreFill, HandleInert, HandleAction, Handle, Take
<1>32. ASSUME readOf' = readOf \cup {NoChain}, faults < MaxFaults, faults' = faults + 1
       PROVE  readOf' \subseteq Chains \cup {NoChain} /\ faults' \in 0 .. MaxFaults
  <2>1. readOf \subseteq Chains \cup {NoChain} /\ faults \in 0 .. MaxFaults /\ MaxFaults \in Nat
    OBVIOUS
  <2> HIDE DEF TypeOK, Chains
  <2> QED
    BY <1>32, <2>1
<1>31. ASSUME NEW i \in todo, LoseWrite(i) PROVE TypeOK'
  <2>1. /\ todo' \subseteq todo /\ pc = "work"
        /\ readOf' = readOf \cup {NoChain} /\ faults < MaxFaults /\ faults' = faults + 1
        /\ UNCHANGED <<chainVars, pc, procVars, latest, toBlock, logChain, dropped, headChain,
                       dLast, source, pools, swaps, entities, tally, frozen, kept>>
    BY <1>31 DEF LoseWrite, Lose, Take
  <2>2. readOf' \subseteq Chains \cup {NoChain} /\ faults' \in 0 .. MaxFaults
    BY <1>32, <2>1
  <2> QED
    BY <2>1, <2>2
<1>26. ASSUME NEW i \in todo, WriteFill(i) PROVE TypeOK'
  BY <1>22, <1>26 DEF WriteFill
<1>27. ASSUME NEW i \in todo, RollUpFill(i) PROVE TypeOK'
  <2>1. tally' \in [Subject -> Nat]
    <3> DEFINE m == LogAt(logChain, i).subject
    <3>1. m \in Subject
      BY <1>22, <1>27 DEF RollUpFill
    <3>2. tally' = [tally EXCEPT ![m] = tally[m] + 1]
      BY <1>27 DEF RollUpFill
    <3> HIDE DEF m
    <3> QED
      BY <3>1, <3>2
  <2>2. /\ todo' \subseteq todo /\ pc = "rollup" /\ pc' = "work"
        /\ UNCHANGED <<chainVars, procVars, latest, toBlock, logChain, dropped, headChain,
                       dLast, source, pools, swaps, entities, frozen, kept, readOf, faults>>
    BY <1>27 DEF RollUpFill
  <2> QED
    BY <2>1, <2>2
<1>28. ASSUME NEW i \in todo, HandleFrozen(i) PROVE TypeOK'
  BY <1>22, <1>28 DEF HandleFrozen, Handle, Take, Lose
<1>29. ASSUME NEW i \in todo, LoseHalfFrozen(i) PROVE TypeOK'
  <2>1. /\ entities' \in {entities, entities \cup {<<logChain, i>>}}
        /\ frozen' \in {frozen, [frozen EXCEPT ![LogAt(logChain, i).subject] = <<logChain, i>>]}
        /\ todo' \subseteq todo /\ pc = "work"
        /\ readOf' = readOf \cup {NoChain} /\ faults < MaxFaults /\ faults' = faults + 1
        /\ UNCHANGED <<chainVars, pc, procVars, latest, toBlock, logChain, dropped, headChain,
                       dLast, source, pools, swaps, tally, kept>>
    BY <1>29 DEF LoseHalfFrozen, Handle, Take, Lose
  <2>2. LogAt(logChain, i).subject \in Subject /\ <<logChain, i>> \in LogIds
    BY <1>22, <2>1
  <2>3. entities' \subseteq LogIds
    BY <2>1, <2>2
  <2>4. frozen' \in [Subject -> LogIds \cup {NoRow}]
    <3> DEFINE m == LogAt(logChain, i).subject
               e == <<logChain, i>>
    <3>1. frozen' = frozen \/ frozen' = [frozen EXCEPT ![m] = e]
      BY <2>1
    <3>2. m \in Subject /\ e \in LogIds /\ frozen \in [Subject -> LogIds \cup {NoRow}]
      BY <2>2
    <3> HIDE DEF m, e
    <3> HIDE DEF TypeOK
    <3> QED
      BY <3>1, <3>2
  <2>5. readOf' \subseteq Chains \cup {NoChain} /\ faults' \in 0 .. MaxFaults
    BY <1>32, <2>1
  <2> QED
    BY <2>1, <2>3, <2>4, <2>5
<1>30. ASSUME NEW i \in todo, LoseHalfFill(i) PROVE TypeOK'
  <2> DEFINE m == LogAt(logChain, i).subject
  <2>1. /\ entities' \in {entities, entities \cup {<<logChain, i>>}}
        /\ tally' \in {tally, [tally EXCEPT ![m] = tally[m] + 1], [tally EXCEPT ![m] = 1]}
        /\ todo' \subseteq todo /\ pc = "work"
        /\ readOf' = readOf \cup {NoChain} /\ faults < MaxFaults /\ faults' = faults + 1
        /\ UNCHANGED <<chainVars, pc, procVars, latest, toBlock, logChain, dropped, headChain,
                       dLast, source, pools, swaps, frozen, kept>>
    BY <1>30 DEF LoseHalfFill, Handle, Take, Lose
  <2>2. m \in Subject /\ entities' \subseteq LogIds
    BY <1>22, <2>1
  <2>3. tally' \in [Subject -> Nat]
    <3>1. \/ tally' = tally
          \/ tally' = [tally EXCEPT ![m] = tally[m] + 1]
          \/ tally' = [tally EXCEPT ![m] = 1]
      BY <2>1
    <3>2. m \in Subject /\ tally \in [Subject -> Nat]
      BY <2>2
    <3> HIDE DEF m, TypeOK
    <3>3. tally[m] + 1 \in Nat /\ 1 \in Nat
      BY <3>2
    <3> QED
      BY <3>1, <3>2, <3>3
  <2>4. readOf' \subseteq Chains \cup {NoChain} /\ faults' \in 0 .. MaxFaults
    BY <1>32, <2>1
  <2> QED
    BY <2>1, <2>2, <2>3, <2>4
<1> QED
  BY <1>1, <1>2, <1>3, <1>4, <1>5, <1>6, <1>7, <1>8, <1>9, <1>10, <1>11, <1>12, <1>13,
     <1>14, <1>15, <1>16, <1>17, <1>18, <1>19, <1>20, <1>21,
     <1>23, <1>24, <1>25, <1>26, <1>27, <1>28, <1>29, <1>30, <1>31
  DEF Next, Startup, Poll, ProcessLog

\* Every variable of the poller, the store and the chain keeps its type,
\* whatever crashes, relaunches, stale answers and failed reads occur.
THEOREM TypeCorrect == Spec => []TypeOK
<1>1. Init => TypeOK
  <2> SUFFICES ASSUME Init PROVE TypeOK
    OBVIOUS
  <2>1. PICK o \in OldStores \cup {EmptyStore} :
          /\ dLast = o.lastBlock
          /\ pools = o.pools /\ swaps = o.swaps /\ entities = o.entities
          /\ tally = o.tally /\ frozen = o.frozen
          /\ readOf = IF o.lastBlock = 0 THEN {} ELSE {NoChain}
    BY DEF Init
  <2>2. EmptyStore \in Store
    BY DEF EmptyStore, Store
  <2>3. o \in Store
    BY <2>1, <2>2, OldStoresAreStores
  <2>4. /\ dLast \in Nat /\ pools \subseteq Subject
        /\ swaps \subseteq LogIds /\ entities \subseteq LogIds
        /\ tally \in [Subject -> Nat]
        /\ frozen \in [Subject -> LogIds \cup {NoRow}]
        /\ readOf \subseteq {NoChain}
    BY <2>1, <2>3 DEF Store
  <2> QED
    BY <2>4, PollerConstants
    DEF Init, TypeOK, Chains, Configs, NoHash, NoSource, Steps, Opening, Polling, Working, Tables
<1> QED
  BY <1>1, TypeStep, PTL DEF Spec

-----------------------------------------------------------------------------
(***************************************************************************)
(* The cursor moves back only after a relaunch.  The baseline hash of a    *)
(* running process is that of a chain it has met since it started, so a    *)
(* probe that differs from it proves a relaunch within this process's life.*)
(***************************************************************************)
RewindInv ==
  /\ boot <= chain
  /\ pc = "down" => genesis = NoHash
  /\ genesis # NoHash => boot <= genesis /\ genesis <= chain
  /\ lastBlock >= StartBlock
  /\ pc \in Opening => lastBlock = StartBlock
  /\ pc \in {"work", "rollup"} => toBlock > lastBlock

\* No step leaves a process with a baseline it never met.
LEMMA RewindStep == TypeOK /\ RewindInv /\ [Next]_vars => RewindInv'
<1> USE PollerConstants DEF TypeOK, RewindInv, Chains, Configs, NoHash, NoSource, Opening,
        chainVars, diskVars, localVars, procVars, vars
<1> SUFFICES ASSUME TypeOK, RewindInv, [Next]_vars PROVE RewindInv'
  OBVIOUS
<1>1. ASSUME NEW k \in Configs, Start(k) PROVE RewindInv'
  BY <1>1 DEF Start
<1>2. CASE Open \/ DropTable \/ Adopt
  BY <1>2 DEF Open, TakeOver, DropTable, Adopt
<1>3. CASE Load
  BY <1>3 DEF Load
<1>4. ASSUME NEW h \in 0 .. height, ReadHead(h) PROVE RewindInv'
  BY <1>4 DEF ReadHead
<1>5. CASE EnsureGenesisHash
  <2>1. /\ genesis' = genesis \/ genesis' = chain
        /\ UNCHANGED <<chain, boot, lastBlock, toBlock>>
        /\ pc' = "reset"
    BY <1>5 DEF EnsureGenesisHash
  <2> QED
    BY <2>1
<1>6. CASE CountLowHead \/ ProbeFails
  <2>1. /\ pc' \in {"range", "probe"}
        /\ UNCHANGED <<chain, boot, genesis, lastBlock, toBlock>>
    BY <1>6 DEF CountLowHead, ProbeFails
  <2> QED
    BY <2>1
<1>7. CASE Probe
  <2>1. /\ genesis' = genesis \/ genesis' = chain
        /\ lastBlock' = lastBlock \/ lastBlock' = StartBlock
        /\ UNCHANGED <<chain, boot>>
        /\ pc' \in {"range", "rewind"}
    BY <1>7 DEF Probe
  <2> QED
    BY <2>1
<1>8. CASE PersistRewind
  BY <1>8 DEF PersistRewind
<1>9. CASE NothingNew \/ FetchFails \/ Panic
  <2>1. /\ pc' = "idle"
        /\ UNCHANGED <<chain, boot, genesis, lastBlock>>
    BY <1>9 DEF NothingNew, FetchFails, Panic, Return
  <2> QED
    BY <2>1
<1>10. ASSUME NEW h \in 0 .. height, GetLogs(h) PROVE RewindInv'
  BY <1>10 DEF GetLogs, BatchEnd
<1>11. CASE Advance \/ Persist
  <2>1. /\ lastBlock' = lastBlock \/ (lastBlock' = toBlock /\ pc = "work")
        /\ pc' \in {"persist", "idle"}
        /\ UNCHANGED <<chain, boot, genesis>>
    BY <1>11 DEF Advance, Persist, Return
  <2> QED
    BY <2>1
<1>12. CASE Crash
  BY <1>12 DEF Crash
<1>13. CASE Mine \/ Relaunch
  <2>1. /\ chain' = chain \/ chain' = chain + 1
        /\ UNCHANGED <<pc, boot, genesis, lastBlock, toBlock>>
    BY <1>13 DEF Mine, Relaunch
  <2> QED
    BY <2>1
<1>14. CASE ProcessLog
  <2>1. /\ pc \in {"work", "rollup"} /\ pc' \in {"work", "rollup"}
        /\ UNCHANGED <<chain, lastBlock, toBlock, genesis, boot>>
    BY <1>14 DEF ProcessLog, HandleCreated, HandleInitializeV4, HandleSwap, HandleSwapV4,
       IgnoreFill, WriteFill, RollUpFill, HandleFrozen, HandleAction, HandleInert, LoseWrite, LoseHalfFrozen, LoseHalfFill,
       Handle, Take, Lose
  <2> QED
    BY <2>1
<1>15. CASE UNCHANGED vars
  BY <1>15
<1> QED
  BY <1>1, <1>2, <1>3, <1>4, <1>5, <1>6, <1>7, <1>8, <1>9, <1>10, <1>11, <1>12, <1>13,
     <1>14, <1>15 DEF Next, Startup, Poll

\* The types and the baseline hold for good.
LEMMA RewindInvariant == Spec => [](TypeOK /\ RewindInv)
<1>1. Init => RewindInv
  BY PollerConstants DEF Init, RewindInv, NoHash, Opening
<1> QED
  BY <1>1, TypeCorrect, RewindStep, PTL DEF Spec

\* No lagging endpoint, failed probe, crash or batch can move a running
\* process's cursor back unless the chain was relaunched since it started.
THEOREM RewindSafe == Spec => RewindOnlyAfterRelaunch
<1> DEFINE Back == pc' # "down" /\ lastBlock' < lastBlock
<1>1. TypeOK /\ RewindInv /\ [Next]_vars => [Back => chain # boot]_vars
  <2> USE PollerConstants DEF TypeOK, RewindInv, Chains, NoHash, Opening,
          chainVars, diskVars, localVars, procVars
  <2> SUFFICES ASSUME TypeOK, RewindInv, Next, Back PROVE chain # boot
    BY DEF vars
  <2>1. CASE Startup
    BY <2>1 DEF Startup, Start, Open, TakeOver, DropTable, Adopt, Load
  <2>2. CASE Probe
    BY <2>2 DEF Probe
  <2>3. CASE Advance
    BY <2>3 DEF Advance
  <2>4. CASE ProcessLog
    BY <2>4 DEF ProcessLog, HandleCreated, HandleInitializeV4, HandleSwap, HandleSwapV4,
       IgnoreFill, WriteFill, RollUpFill, HandleFrozen, HandleAction, HandleInert, LoseWrite, LoseHalfFrozen, LoseHalfFill,
       Handle, Take, Lose
  <2>5. CASE \/ \E h \in 0 .. height : ReadHead(h)
             \/ EnsureGenesisHash \/ CountLowHead \/ ProbeFails
    BY <2>5 DEF ReadHead, EnsureGenesisHash, CountLowHead, ProbeFails
  <2>6. CASE \/ PersistRewind \/ NothingNew \/ FetchFails \/ Persist \/ Panic
             \/ \E h \in 0 .. height : GetLogs(h)
    BY <2>6 DEF PersistRewind, NothingNew, GetLogs, FetchFails, Persist, Panic
  <2>7. CASE Crash \/ Mine \/ Relaunch
    BY <2>7 DEF Crash, Mine, Relaunch
  <2> QED
    BY <2>1, <2>2, <2>3, <2>4, <2>5, <2>6, <2>7 DEF Next, Poll
<1> QED
  BY <1>1, RewindInvariant, PTL DEF Spec, RewindOnlyAfterRelaunch

-----------------------------------------------------------------------------
(***************************************************************************)
(* Every block below the cursor has been read whole, when the endpoint's   *)
(* nodes agree, the DELETEs succeed and no deployment is rolled back.      *)
(***************************************************************************)
Behaved == ~LaggingLogs /\ ~DropMayFail /\ ~Reverts

\* A store's source is the address set of its rows, except between the first
\* DELETE of DropDerived and SetSource, when it is an older set for good.
SourceInv ==
  /\ source <= cfg
  /\ pc \notin {"down", "open", "drop"} => source = cfg
  /\ pc = "drop" => source # cfg
  /\ pc = "drop" /\ dropped = Len(Tables) => dLast = 0
  /\ pc # "drop" => dropped = 0

\* A head read from the chain still running bounds the batch read under it.
HeadInv ==
  /\ headChain <= chain
  /\ pc \in Polling /\ headChain = chain => latest <= height
  /\ pc = "rewind" => lastBlock = StartBlock
  /\ pc \in {"work", "rollup"} =>
       /\ toBlock <= latest
       /\ \A i \in todo : LogAt(logChain, i).block \in (lastBlock + 1) .. toBlock

WholeBelow(n) == \A c \in Chains : readOf \subseteq {c} => ReadWhole(cfg, c, n, Rows)

\* The part of the batch already handled is as good as the blocks below it.
BatchInv ==
  \A c \in Chains : (readOf \subseteq {c} /\ headChain = c /\ logChain = c) =>
    \A i \in Positions(c) :
      (LogAt(c, i).block \in (lastBlock + 1) .. toBlock /\ i \notin todo) =>
        Applied(cfg, c, i, Rows)

\* Between writeFill's two writes the Fill row is already in the store.
FillInv ==
  \A i \in todo : Front(i) => /\ LogAt(logChain, i).kind = "DEXFill"
                             /\ <<logChain, i>> \in entities

LedgerInv ==
  /\ source = cfg => WholeBelow(dLast)
  /\ pc \notin Opening => WholeBelow(lastBlock)
  /\ pc \in {"work", "rollup"} => BatchInv
  /\ pc = "rollup" => FillInv

WholeInv == TypeOK /\ RewindInv /\ SourceInv /\ HeadInv /\ LedgerInv

\* Every step keeps source and cursor in step with the address set.
LEMMA SourceStep == Behaved /\ TypeOK /\ SourceInv /\ [Next]_vars => SourceInv'
<1> USE PollerConstants DEF Behaved, TypeOK, SourceInv, Configs, NoSource,
        chainVars, diskVars, localVars, procVars, vars
<1> SUFFICES ASSUME Behaved, TypeOK, SourceInv, [Next]_vars PROVE SourceInv'
  OBVIOUS
<1>0. Len(Tables) = 4 /\ Tables[4] = "lastBlock"
  BY DEF Tables
<1>1. ASSUME NEW k \in Configs, Start(k) PROVE SourceInv'
  BY <1>1 DEF Start
<1>2. CASE Open
  <2>1. /\ pc = "open" /\ UNCHANGED <<cfg, dropped, dLast>>
        /\ \/ pc' = "load" /\ source' = cfg
           \/ pc' = "drop" /\ source' = source /\ source # cfg
    BY <1>2 DEF Open, TakeOver
  <2> QED
    BY <1>0, <2>1
<1>3. CASE DropTable
  <2>1. /\ dropped' = dropped + 1
        /\ dropped + 1 = 4 => dLast' = 0
        /\ dLast' = 0 \/ dLast' = dLast
        /\ pc = "drop"
        /\ UNCHANGED <<pc, source, cfg>>
    BY <1>0, <1>3 DEF DropTable
  <2> QED
    BY <1>0, <2>1
<1>4. CASE Adopt
  BY <1>4 DEF Adopt
<1>5. CASE Load
  BY <1>5 DEF Load
<1>6. CASE Crash
  BY <1>6 DEF Crash
<1>7. CASE Poll \/ Panic
  <2> DEFINE Quiet == /\ pc \notin {"down", "open", "drop"}
                      /\ pc' \notin {"down", "open", "drop"}
                      /\ UNCHANGED <<source, cfg, dropped>>
  <2>1. ASSUME NEW h \in 0 .. height, ReadHead(h) \/ GetLogs(h) PROVE Quiet
    BY <2>1 DEF ReadHead, GetLogs
  <2>2. ASSUME EnsureGenesisHash \/ CountLowHead \/ ProbeFails \/ Probe \/ PersistRewind
        PROVE  Quiet
    BY <2>2 DEF EnsureGenesisHash, CountLowHead, ProbeFails, Probe, PersistRewind
  <2>3. ASSUME NothingNew \/ FetchFails \/ Advance \/ Persist \/ Panic PROVE Quiet
    BY <2>3 DEF NothingNew, FetchFails, Advance, Persist, Panic, Return
  <2>4. ASSUME ProcessLog PROVE Quiet
    BY <2>4 DEF ProcessLog, HandleCreated, HandleInitializeV4, HandleSwap, HandleSwapV4,
       IgnoreFill, WriteFill, RollUpFill, HandleFrozen, HandleAction, HandleInert, LoseWrite, LoseHalfFrozen, LoseHalfFill,
       Handle, Take, Lose
  <2>5. Quiet
    BY <1>7, <2>1, <2>2, <2>3, <2>4 DEF Poll
  <2> QED
    BY <2>5
<1>8. CASE Mine \/ Relaunch \/ UNCHANGED vars
  <2>1. UNCHANGED <<pc, source, cfg, dropped, dLast>>
    BY <1>8 DEF Mine, Relaunch
  <2> QED
    BY <2>1
<1> QED
  BY <1>1, <1>2, <1>3, <1>4, <1>5, <1>6, <1>7, <1>8 DEF Next, Startup

\* Every step keeps the batch inside the head it was read under.
LEMMA HeadStep == TypeOK /\ HeadInv /\ [Next]_vars => HeadInv'
<1> USE PollerConstants DEF TypeOK, HeadInv, Chains, Polling, Working,
        chainVars, diskVars, localVars, procVars, vars
<1> SUFFICES ASSUME TypeOK, HeadInv, [Next]_vars PROVE HeadInv'
  OBVIOUS
<1>1. CASE Startup
  <2>1. /\ pc' \notin Polling
        /\ UNCHANGED <<headChain, chain>>
    BY <1>1 DEF Startup, Start, Open, TakeOver, DropTable, Adopt, Load
  <2> QED
    BY <2>1
<1>2. ASSUME NEW h \in 0 .. height, ReadHead(h) PROVE HeadInv'
  BY <1>2 DEF ReadHead
<1>3. CASE \/ EnsureGenesisHash \/ CountLowHead \/ ProbeFails \/ PersistRewind
  <2>1. /\ pc \in {"baseline", "reset", "probe", "rewind"}
        /\ pc' \in {"reset", "range", "probe"}
        /\ UNCHANGED <<headChain, chain, latest, height>>
    BY <1>3 DEF EnsureGenesisHash, CountLowHead, ProbeFails, PersistRewind
  <2> QED
    BY <2>1
<1>4. CASE Probe
  <2>1. /\ pc = "probe"
        /\ pc' = "range" \/ (pc' = "rewind" /\ lastBlock' = StartBlock)
        /\ UNCHANGED <<headChain, chain, latest, height>>
    BY <1>4 DEF Probe
  <2> QED
    BY <2>1
<1>5. CASE NothingNew \/ FetchFails \/ Persist \/ Panic \/ Crash
  <2>1. pc' \in {"idle", "down"} /\ headChain' = 0 /\ chain' = chain
    BY <1>5 DEF NothingNew, FetchFails, Persist, Panic, Crash, Return
  <2> QED
    BY <2>1
<1>6. ASSUME NEW h \in 0 .. height, GetLogs(h) PROVE HeadInv'
  <2>1. /\ pc = "range" /\ pc' = "work" /\ latest > lastBlock
        /\ toBlock' = BatchEnd /\ logChain' = chain
        /\ UNCHANGED <<headChain, chain, height, latest, lastBlock>>
    BY <1>6 DEF GetLogs
  <2>2. toBlock' <= latest'
    BY <2>1 DEF BatchEnd
  <2>3. \A i \in todo' : LogAt(logChain', i).block \in (lastBlock' + 1) .. toBlock'
    BY <1>6, <2>1 DEF GetLogs
  <2> QED
    BY <2>1, <2>2, <2>3 DEF LogAt
<1>7. CASE ProcessLog
  <2>1. /\ pc \in {"work", "rollup"} /\ pc' \in {"work", "rollup"}
        /\ todo' \subseteq todo
        /\ UNCHANGED <<headChain, logChain, chain, latest, height, lastBlock, toBlock>>
    BY <1>7 DEF ProcessLog, HandleCreated, HandleInitializeV4, HandleSwap, HandleSwapV4,
       IgnoreFill, WriteFill, RollUpFill, HandleFrozen, HandleAction, HandleInert, LoseWrite, LoseHalfFrozen, LoseHalfFill,
       Handle, Take, Lose
  <2> QED
    BY <2>1 DEF LogAt
<1>8. CASE Advance
  <2>1. /\ pc = "work" /\ pc' = "persist"
        /\ UNCHANGED <<headChain, chain, latest, height>>
    BY <1>8 DEF Advance
  <2> QED
    BY <2>1
<1>9. CASE Mine
  <2>1. /\ height' = height + 1
        /\ UNCHANGED <<pc, headChain, logChain, chain, latest, lastBlock, toBlock, todo>>
    BY <1>9 DEF Mine
  <2> QED
    BY <2>1 DEF LogAt
<1>10. CASE Relaunch
  <2>1. /\ chain' = chain + 1
        /\ UNCHANGED <<pc, headChain, logChain, latest, lastBlock, toBlock, todo>>
    BY <1>10 DEF Relaunch
  <2> QED
    BY <2>1 DEF LogAt
<1>11. CASE UNCHANGED vars
  BY <1>11 DEF LogAt
<1> QED
  BY <1>1, <1>2, <1>3, <1>4, <1>5, <1>6, <1>7, <1>8, <1>9, <1>10, <1>11 DEF Next, Poll

\* More rows never undo what a log is owed.
LEMMA AppliedGrows ==
  ASSUME NEW k, NEW c, NEW i, NEW r, NEW s,
         r.pools \subseteq s.pools, r.swaps \subseteq s.swaps, r.entities \subseteq s.entities,
         Applied(k, c, i, r)
  PROVE  Applied(k, c, i, s)
  BY DEF Applied

\* A cursor at or below StartBlock owes nothing.
LEMMA NothingBelowStart ==
  ASSUME NEW k, NEW c, NEW r, NEW n \in Nat, n <= StartBlock
  PROVE  ReadWhole(k, c, n, r)
  BY PollerConstants DEF ReadWhole

\* The blocks below the cursor and the handled batch make the blocks below the
\* batch's end.
LEMMA BatchExtends ==
  ASSUME NEW k, NEW c \in Chains, NEW r, NEW n \in Nat, NEW m \in Nat, n >= StartBlock,
         ReadWhole(k, c, n, r),
         \A i \in Positions(c) : LogAt(c, i).block \in (n + 1) .. m => Applied(k, c, i, r)
  PROVE  ReadWhole(k, c, m, r)
<1>1. \A i \in Positions(c) : LogAt(c, i).block \in Nat
  BY LogAtType DEF Log
<1> QED
  BY <1>1, PollerConstants DEF ReadWhole

\* The handler of the log at the front leaves it applied: a swap's pool was
\* announced at an earlier position, which is below the cursor or handled.
LEMMA HandlerApplies ==
  ASSUME WholeInv, NEW i \in todo, pc = "work", Front(i),
         headChain = logChain, readOf \subseteq {logChain},
         LogAt(logChain, i).kind = "Swap",
         AnnouncedBefore(cfg, logChain, i, LogAt(logChain, i).emitter)
  PROVE  LogAt(logChain, i).emitter \in pools
<1> USE DEF WholeInv
<1>1. logChain \in Chains /\ i \in Positions(logChain)
  BY DEF TypeOK, Working
<1>2. PICK j \in Positions(logChain) :
        /\ j < i
        /\ LogAt(logChain, j).block > StartBlock
        /\ LogAt(logChain, j).kind \in CreateKinds
        /\ Trusted(cfg, LogAt(logChain, j))
        /\ LogAt(logChain, j).subject = LogAt(logChain, i).emitter
  BY DEF AnnouncedBefore
<1>3. LogAt(logChain, j).block <= LogAt(logChain, i).block
  BY <1>1, <1>2, LogsInBlockOrder DEF LogAt
<1>4. /\ LogAt(logChain, i).block \in (lastBlock + 1) .. toBlock
      /\ LogAt(logChain, j).block \in Nat /\ LogAt(logChain, i).block \in Nat
  BY <1>1, <1>2, LogAtType DEF HeadInv, Log
<1>5. j \notin todo
  BY <1>1, <1>2, PositionsInNat DEF Front
<1>6. Applied(cfg, logChain, j, Rows)
  <2>1. CASE LogAt(logChain, j).block <= lastBlock
    <3>1. ReadWhole(cfg, logChain, lastBlock, Rows)
      BY <1>1 DEF LedgerInv, WholeBelow, Opening
    <3>2. lastBlock \in Nat /\ StartBlock \in Nat
      BY PollerConstants DEF TypeOK
    <3>3. LogAt(logChain, j).block \in (StartBlock + 1) .. lastBlock
      BY <2>1, <1>2, <1>4, <3>2
    <3> QED
      BY <3>1, <3>3, <1>2 DEF ReadWhole
  <2>2. CASE LogAt(logChain, j).block > lastBlock
    <3>1. LogAt(logChain, j).block \in (lastBlock + 1) .. toBlock
      BY <2>2, <1>3, <1>4 DEF TypeOK
    <3> QED
      BY <3>1, <1>1, <1>2, <1>5 DEF LedgerInv, BatchInv
  <2> QED
    BY <2>1, <2>2, <1>4 DEF TypeOK
<1> QED
  BY <1>2, <1>6 DEF Applied, Rows

\* What a handler's step does to the rows, the batch and the cursor.
HandlerDone(i) ==
  /\ pc \in {"work", "rollup"} /\ pc' \in {"work", "rollup"}
  /\ pools \subseteq pools' /\ swaps \subseteq swaps' /\ entities \subseteq entities'
  /\ UNCHANGED <<cfg, readOf, headChain, logChain, dLast, lastBlock, toBlock, source>>
  /\ pc' = "rollup" => /\ todo' = todo /\ Front(i)
                       /\ <<logChain, i>> \in entities'
                       /\ LogAt(logChain, i).kind = "DEXFill"
  /\ \/ todo' = todo
     \/ /\ todo' = todo \ {i}
        /\ (headChain = logChain /\ readOf \subseteq {logChain}) =>
             Applied(cfg, logChain, i, Rows')

\* Every handler gives its log its row, or has nothing to give it.
LEMMA HandlerEffect ==
  ASSUME WholeInv, NEW i \in todo,
         \/ HandleCreated(i) \/ HandleInitializeV4(i) \/ HandleSwap(i) \/ HandleSwapV4(i)
         \/ IgnoreFill(i) \/ WriteFill(i) \/ RollUpFill(i)
         \/ HandleFrozen(i) \/ HandleAction(i) \/ HandleInert(i)
  PROVE  HandlerDone(i)
<1> USE DEF HandlerDone, procVars, localVars, diskVars
<1> DEFINE l == LogAt(logChain, i)
<1>1. CASE HandleCreated(i) \/ HandleInitializeV4(i)
  <2>1. /\ l.kind \in CreateKinds \cup {"InitializeV4"}
        /\ Trusted(cfg, l) => l.subject \in pools'
    BY <1>1 DEF HandleCreated, HandleInitializeV4, Handle, Take, Lose
  <2>2. Applied(cfg, logChain, i, Rows')
    BY <2>1 DEF Applied, Rows, CreateKinds
  <2> QED
    BY <1>1, <2>2 DEF HandleCreated, HandleInitializeV4, Handle, Take, Lose
<1>2. CASE HandleSwap(i)
  <2>1. l.kind = "Swap" /\ pc = "work" /\ Front(i)
        /\ (l.emitter \in pools => <<logChain, i>> \in swaps')
    BY <1>2 DEF HandleSwap, Handle, Take, Lose
  <2>2. (headChain = logChain /\ readOf \subseteq {logChain}) => Applied(cfg, logChain, i, Rows')
    BY <2>1, HandlerApplies DEF Applied, Rows, CreateKinds
  <2> QED
    BY <1>2, <2>2 DEF HandleSwap, Handle, Take, Lose
<1>3. CASE HandleSwapV4(i)
  <2>1. l.kind = "SwapV4" /\ (Trusted(cfg, l) => <<logChain, i>> \in swaps')
    BY <1>3 DEF HandleSwapV4, Handle, Take, Lose
  <2>2. Applied(cfg, logChain, i, Rows')
    BY <2>1 DEF Applied, Rows, CreateKinds
  <2> QED
    BY <1>3, <2>2 DEF HandleSwapV4, Handle, Take, Lose
<1>4. CASE IgnoreFill(i) \/ HandleInert(i)
  <2>1. l.kind = "Inert" \/ (l.kind = "DEXFill" /\ ~Trusted(cfg, l))
    BY <1>4 DEF IgnoreFill, HandleInert, Handle, Take, Lose
  <2>2. Applied(cfg, logChain, i, Rows')
    BY <2>1 DEF Applied, Rows, CreateKinds
  <2> QED
    BY <1>4, <2>2 DEF IgnoreFill, HandleInert, Handle, Take, Lose
<1>5. CASE WriteFill(i)
  BY <1>5 DEF WriteFill
<1>6. CASE RollUpFill(i)
  <2>1. l.kind = "DEXFill" /\ <<logChain, i>> \in entities /\ entities' = entities
    BY <1>6 DEF RollUpFill, WholeInv, LedgerInv, FillInv
  <2>2. Applied(cfg, logChain, i, Rows')
    BY <2>1 DEF Applied, Rows, CreateKinds
  <2> QED
    BY <1>6, <2>2 DEF RollUpFill
<1>7. CASE HandleFrozen(i) \/ HandleAction(i)
  <2>1. l.kind \in {"AddressFrozen", "Action"} /\ <<logChain, i>> \in entities'
    BY <1>7 DEF HandleFrozen, HandleAction, Handle, Take, Lose
  <2>2. Applied(cfg, logChain, i, Rows')
    BY <2>1 DEF Applied, Rows, CreateKinds
  <2> QED
    BY <1>7, <2>2 DEF HandleFrozen, HandleAction, Handle, Take, Lose
<1> QED
  BY <1>1, <1>2, <1>3, <1>4, <1>5, <1>6, <1>7

\* A batch read under a head of the same chain leaves out no log of its blocks.
LEMMA NoneMissed ==
  ASSUME Behaved, WholeInv, NEW h \in 0 .. height, GetLogs(h),
         NEW c \in Chains, headChain' = c, logChain' = c, NEW i \in Positions(c),
         LogAt(c, i).block \in (lastBlock' + 1) .. toBlock'
  PROVE  i \in todo'
<1> USE DEF WholeInv
<1>1. /\ pc = "range" /\ h = height
      /\ toBlock' = BatchEnd /\ logChain' = chain /\ latest > lastBlock
      /\ UNCHANGED <<lastBlock, headChain, chain, height>>
  BY DEF GetLogs, Behaved, procVars, chainVars
<1>2. headChain = chain /\ c = chain
  BY <1>1
<1>3. latest <= height
  BY <1>1, <1>2 DEF HeadInv, Polling
<1>4. BatchEnd <= latest
  BY <1>1, PollerConstants DEF BatchEnd, TypeOK
<1>5. LogAt(c, i).block \in Nat /\ BatchEnd \in Nat
  BY <1>1, LogAtType, PollerConstants DEF Log, BatchEnd, TypeOK
<1>6. LogAt(c, i).block <= h
  BY <1>1, <1>3, <1>4, <1>5 DEF TypeOK
<1> QED
  BY <1>1, <1>2, <1>6 DEF GetLogs

\* Blocks nobody vouches for are of no chain.
LEMMA NobodyVouches ==
  ASSUME NEW R, NoChain \in R
  PROVE  \A c \in Chains : ~(R \subseteq {c})
  BY PollerConstants DEF NoChain, Chains

\* The store is kept as it is; or it is another's whose cursor is at zero, or whose blocks
\* nobody vouches for.
LEMMA OpenEffect ==
  ASSUME ~DropMayFail, TypeOK, Open
  PROVE  /\ pc = "open" /\ pc' \in {"load", "drop"}
         /\ UNCHANGED <<chain, cfg, dLast, lastBlock, dropped, pools, swaps, entities, tally, frozen>>
         /\ readOf' = readOf \/ readOf' = readOf \cup {NoChain}
         /\ \/ UNCHANGED <<source, readOf, kept>>
            \/ /\ source # cfg /\ source' = cfg /\ pc' = "load"
               /\ kept' = [pools |-> pools, swaps |-> swaps]
               /\ (dLast = 0 /\ readOf' = readOf) \/ NoChain \in readOf'
<1>1. NoSource # cfg
  BY PollerConstants DEF TypeOK, Configs, NoSource
<1> QED
  BY <1>1 DEF Open, TakeOver, procVars, chainVars, localVars

\* A handler that lost a write: its log leaves the batch, and no block below the
\* cursor is vouched for any more.
Lost(i) ==
  /\ pc = "work" /\ pc' = "work" /\ Front(i) /\ todo' = todo \ {i}
  /\ NoChain \in readOf' /\ readOf' = readOf \cup {NoChain}
  /\ pools' = pools /\ swaps' = swaps /\ entities \subseteq entities'
  /\ UNCHANGED <<chain, cfg, headChain, logChain, dLast, lastBlock, toBlock, source, kept>>
  /\ \/ frozen' = frozen
     \/ frozen' = [frozen EXCEPT ![LogAt(logChain, i).subject] = <<logChain, i>>]

\* That is all a refused statement does.
LEMMA LoseEffect ==
  ASSUME NEW i \in todo, LoseWrite(i) \/ LoseHalfFrozen(i) \/ LoseHalfFill(i)
  PROVE  Lost(i)
  BY DEF LoseWrite, LoseHalfFrozen, LoseHalfFill, Lose, Take, Lost, procVars, chainVars

\* A step that touches neither rows nor cursors keeps what they say.
LEMMA QuietStep ==
  ASSUME LedgerInv, pc' \notin {"work", "rollup"}, pc \in Opening => pc' \in Opening,
         UNCHANGED <<pools, swaps, entities, cfg, readOf, dLast, lastBlock, source>>
  PROVE  LedgerInv'
<1>1. Rows' = Rows
  BY DEF Rows
<1> QED
  BY <1>1 DEF LedgerInv, WholeBelow

\* Every step keeps the rows whole below both cursors.
LEMMA LedgerStep ==
  ASSUME Behaved, WholeInv, [Next]_vars
  PROVE  LedgerInv'
<1> USE DEF WholeInv
<1>0. Len(Tables) = 4
  BY DEF Tables
<1>1. ASSUME NEW k \in Configs, Start(k) PROVE LedgerInv'
  <2>1. /\ pc = "down" /\ pc' = "open" /\ cfg' = k /\ k >= cfg
        /\ UNCHANGED <<pools, swaps, entities, readOf, dLast, lastBlock, source>>
    BY <1>1 DEF Start, Behaved, diskVars
  <2>2. Rows' = Rows
    BY <2>1 DEF Rows
  <2>3. source' = cfg' => source = cfg /\ cfg' = cfg
    BY <2>1, PollerConstants DEF SourceInv, TypeOK, Configs, NoSource
  <2> QED
    BY <2>1, <2>2, <2>3 DEF LedgerInv, WholeBelow, Opening
<1>2. CASE Open
  <2>1. /\ pc = "open" /\ pc' \in {"load", "drop"}
        /\ UNCHANGED <<pools, swaps, entities, cfg, dLast, lastBlock>>
        /\ UNCHANGED <<source, readOf>> \/ dLast = 0 \/ NoChain \in readOf'
    BY <1>2, OpenEffect DEF Behaved
  <2>2. CASE dLast = 0
    <3>1. dLast' \in Nat /\ dLast' <= StartBlock
      BY <2>1, <2>2, PollerConstants
    <3> QED
      BY <3>1, <2>1, NothingBelowStart DEF LedgerInv, WholeBelow, Opening
  <2>3. CASE UNCHANGED <<source, readOf>>
    BY <2>1, <2>3, QuietStep DEF Opening
  <2>4. CASE NoChain \in readOf'
    BY <2>1, <2>4, NobodyVouches DEF LedgerInv, WholeBelow, Opening
  <2> QED
    BY <2>1, <2>2, <2>3, <2>4
<1>3. CASE DropTable
  BY <1>3 DEF DropTable, procVars, LedgerInv, SourceInv, Opening
<1>4. CASE Adopt
  <2>1. dLast' = 0 /\ pc' = "load"
    BY <1>0, <1>4 DEF Adopt, Behaved, SourceInv
  <2>2. dLast' \in Nat /\ dLast' <= StartBlock
    BY <2>1, PollerConstants
  <2> QED
    BY <2>1, <2>2, NothingBelowStart DEF LedgerInv, WholeBelow, Opening
<1>5. CASE Load
  <2>1. /\ pc = "load" /\ pc' = "idle"
        /\ lastBlock' = IF dLast < StartBlock THEN StartBlock ELSE dLast
        /\ UNCHANGED <<pools, swaps, entities, cfg, readOf, dLast, source>>
    BY <1>5 DEF Load, diskVars
  <2>2. Rows' = Rows
    BY <2>1 DEF Rows
  <2>3. WholeBelow(dLast)'
    BY <2>1, <2>2 DEF LedgerInv, SourceInv, WholeBelow
  <2>4. WholeBelow(lastBlock)'
    <3>1. CASE lastBlock' = dLast'
      BY <2>3, <3>1 DEF WholeBelow
    <3>2. CASE lastBlock' = StartBlock
      <4>1. StartBlock \in Nat /\ StartBlock <= StartBlock
        BY PollerConstants
      <4> QED
        BY <3>2, <4>1, NothingBelowStart DEF WholeBelow
    <3> QED
      BY <2>1, <3>1, <3>2
  <2> QED
    BY <2>1, <2>3, <2>4 DEF LedgerInv
<1>6. ASSUME NEW h \in 0 .. height, ReadHead(h) PROVE LedgerInv'
  BY <1>6, QuietStep DEF ReadHead, diskVars, procVars, Opening
<1>7. CASE EnsureGenesisHash \/ CountLowHead \/ ProbeFails
  BY <1>7, QuietStep DEF EnsureGenesisHash, CountLowHead, ProbeFails, diskVars, procVars, Opening
<1>8. CASE NothingNew \/ FetchFails \/ Panic
  BY <1>8, QuietStep DEF NothingNew, FetchFails, Panic, Return, diskVars, procVars, Opening
<1>9. CASE Probe
  <2>1. /\ pc = "probe" /\ pc' \in {"range", "rewind"}
        /\ UNCHANGED <<pools, swaps, entities, cfg, readOf, dLast, source>>
        /\ lastBlock' = lastBlock \/ lastBlock' = StartBlock
    BY <1>9 DEF Probe, diskVars
  <2>2. CASE lastBlock' = lastBlock
    BY <2>1, <2>2, QuietStep DEF Opening
  <2>3. CASE lastBlock' = StartBlock
    <3>1. Rows' = Rows
      BY <2>1 DEF Rows
    <3>2. StartBlock \in Nat /\ StartBlock <= StartBlock
      BY PollerConstants
    <3>3. WholeBelow(lastBlock)'
      BY <2>3, <3>2, NothingBelowStart DEF WholeBelow
    <3> QED
      BY <2>1, <3>1, <3>3 DEF LedgerInv, WholeBelow
  <2> QED
    BY <2>1, <2>2, <2>3
<1>10. CASE PersistRewind
  <2>1. /\ pc = "rewind" /\ pc' = "range" /\ dLast' = StartBlock /\ lastBlock' = lastBlock
    BY <1>10 DEF PersistRewind, procVars
  <2>2. lastBlock' = StartBlock
    BY <2>1 DEF HeadInv
  <2>3. StartBlock \in Nat /\ StartBlock <= StartBlock
    BY PollerConstants
  <2> QED
    BY <2>1, <2>2, <2>3, NothingBelowStart DEF LedgerInv, WholeBelow
<1>11. ASSUME NEW h \in 0 .. height, GetLogs(h) PROVE LedgerInv'
  <2>1. /\ pc = "range" /\ pc' = "work" /\ h = height
        /\ toBlock' = BatchEnd /\ logChain' = chain /\ latest > lastBlock
        /\ UNCHANGED <<pools, swaps, entities, cfg, readOf, dLast, lastBlock, source,
                       headChain, chain, height>>
    BY <1>11 DEF GetLogs, Behaved, diskVars, procVars, chainVars
  <2>2. Rows' = Rows
    BY <2>1 DEF Rows
  <2>3. BatchInv'
    <3> SUFFICES ASSUME NEW c \in Chains, headChain' = c, logChain' = c,
                        NEW i \in Positions(c),
                        LogAt(c, i).block \in (lastBlock' + 1) .. toBlock'
                 PROVE  i \in todo'
      BY DEF BatchInv
    <3> QED
      BY <1>11, NoneMissed
  <2> QED
    BY <2>1, <2>2, <2>3 DEF LedgerInv, WholeBelow, Opening
<1>12. CASE Advance
  <2>1. /\ pc = "work" /\ pc' = "persist" /\ todo = {} /\ lastBlock' = toBlock
        /\ readOf' = readOf \cup {headChain, logChain}
        /\ UNCHANGED <<pools, swaps, entities, cfg, dLast, source>>
    BY <1>12 DEF Advance, diskVars
  <2>2. Rows' = Rows
    BY <2>1 DEF Rows
  <2>3. source' = cfg' => WholeBelow(dLast)'
    BY <2>1, <2>2 DEF LedgerInv, WholeBelow
  <2>4. WholeBelow(lastBlock)'
    <3> SUFFICES ASSUME NEW c \in Chains, readOf \cup {headChain, logChain} \subseteq {c}
                 PROVE  ReadWhole(cfg, c, toBlock, Rows)
      BY <2>1, <2>2 DEF WholeBelow
    <3>1. readOf \subseteq {c} /\ headChain = c /\ logChain = c
      OBVIOUS
    <3>2. ReadWhole(cfg, c, lastBlock, Rows)
      BY <2>1, <3>1 DEF LedgerInv, WholeBelow, Opening
    <3>3. \A i \in Positions(c) : LogAt(c, i).block \in (lastBlock + 1) .. toBlock =>
            Applied(cfg, c, i, Rows)
      BY <2>1, <3>1 DEF LedgerInv, BatchInv
    <3>4. lastBlock \in Nat /\ toBlock \in Nat /\ lastBlock >= StartBlock
      BY DEF TypeOK, RewindInv
    <3> QED
      BY <3>2, <3>3, <3>4, BatchExtends
  <2> QED
    BY <2>1, <2>3, <2>4 DEF LedgerInv
<1>13. CASE Persist
  <2>1. /\ pc = "persist" /\ pc' = "idle" /\ dLast' = lastBlock
        /\ UNCHANGED <<pools, swaps, entities, cfg, readOf, lastBlock, source>>
    BY <1>13 DEF Persist, Return, procVars
  <2>2. Rows' = Rows
    BY <2>1 DEF Rows
  <2> QED
    BY <2>1, <2>2 DEF LedgerInv, WholeBelow, Opening
<1>14. CASE Crash
  <2>1. /\ pc' = "down"
        /\ UNCHANGED <<pools, swaps, entities, cfg, readOf, dLast, source>>
    BY <1>14 DEF Crash, diskVars
  <2>2. Rows' = Rows
    BY <2>1 DEF Rows
  <2> QED
    BY <2>1, <2>2 DEF LedgerInv, WholeBelow, Opening
<1>15. CASE Mine \/ Relaunch \/ UNCHANGED vars
  <2>1. UNCHANGED <<pc, pools, swaps, entities, cfg, readOf, dLast, lastBlock, source,
                    headChain, logChain, toBlock, todo>>
    BY <1>15 DEF Mine, Relaunch, vars, diskVars, procVars, localVars
  <2>2. Rows' = Rows
    BY <2>1 DEF Rows
  <2> QED
    BY <2>1, <2>2 DEF LedgerInv, WholeBelow, BatchInv, FillInv, Front, LogAt
<1>17. ASSUME NEW i \in todo, Lost(i) PROVE LedgerInv'
  BY <1>17, NobodyVouches DEF Lost, LedgerInv, WholeBelow, BatchInv
<1>16. ASSUME NEW i \in todo, HandlerDone(i) PROVE LedgerInv'
  <2>1. HandlerDone(i)
    BY <1>16
  <2>2. /\ Rows.pools \subseteq Rows'.pools /\ Rows.swaps \subseteq Rows'.swaps
        /\ Rows.entities \subseteq Rows'.entities
    BY <2>1 DEF Rows, HandlerDone
  <2>3. /\ pc \in {"work", "rollup"} /\ pc' \in {"work", "rollup"}
        /\ UNCHANGED <<cfg, readOf, headChain, logChain, dLast, lastBlock, toBlock, source>>
    BY <2>1 DEF HandlerDone
  <2>4. ASSUME NEW c \in Chains, NEW n, ReadWhole(cfg, c, n, Rows)
        PROVE  ReadWhole(cfg, c, n, Rows')
    BY <2>2, <2>4, AppliedGrows DEF ReadWhole
  <2>5. (source = cfg => WholeBelow(dLast)') /\ WholeBelow(lastBlock)'
    BY <2>3, <2>4 DEF LedgerInv, WholeBelow, Opening
  <2>6. BatchInv'
    <3> SUFFICES ASSUME NEW c \in Chains, readOf \subseteq {c}, headChain = c, logChain = c,
                        NEW j \in Positions(c),
                        LogAt(c, j).block \in (lastBlock + 1) .. toBlock, j \notin todo'
                 PROVE  Applied(cfg, c, j, Rows')
      BY <2>3 DEF BatchInv
    <3>1. CASE j \notin todo
      <4>1. Applied(cfg, c, j, Rows)
        BY <2>3, <3>1 DEF LedgerInv, BatchInv
      <4> QED
        BY <4>1, <2>2, AppliedGrows
    <3>2. CASE j \in todo
      BY <2>1, <3>2 DEF HandlerDone
    <3> QED
      BY <3>1, <3>2
  <2>7. pc' = "rollup" => FillInv'
    <3> SUFFICES ASSUME pc' = "rollup", NEW j \in todo, Front(j)
                 PROVE  LogAt(logChain, j).kind = "DEXFill" /\ <<logChain, j>> \in entities'
      BY <2>1 DEF HandlerDone, FillInv, Front, LogAt
    <3>1. Front(i) /\ i \in Nat /\ j \in Nat
      BY <2>1, <2>3, PositionsInNat DEF HandlerDone, TypeOK, Working
    <3>2. i = j
      BY <3>1 DEF Front
    <3> QED
      BY <2>1, <3>2 DEF HandlerDone
  <2> QED
    BY <2>3, <2>5, <2>6, <2>7 DEF LedgerInv
<1>18. CASE ProcessLog
  BY <1>16, <1>17, <1>18, HandlerEffect, LoseEffect DEF ProcessLog
<1> QED
  BY <1>1, <1>2, <1>3, <1>4, <1>5, <1>6, <1>7, <1>8, <1>9, <1>10, <1>11, <1>12, <1>13,
     <1>14, <1>15, <1>18 DEF Next, Startup, Poll

\* The inductive invariant holds for good.
LEMMA WholeInvariant == Behaved => (Spec => []WholeInv)
<1> SUFFICES ASSUME Behaved PROVE Spec => []WholeInv
  OBVIOUS
<1>1. Init => SourceInv /\ HeadInv
  BY PollerConstants, TypeCorrect DEF Init, SourceInv, HeadInv, Polling, Working, NoSource, Tables
<1>2. Init => LedgerInv
  <2> SUFFICES ASSUME Init PROVE LedgerInv
    OBVIOUS
  <2>1. source # cfg /\ pc = "down"
    BY DEF Init, NoSource
  <2> QED
    BY <2>1 DEF LedgerInv, Opening
<1>3. WholeInv /\ [Next]_vars => SourceInv' /\ HeadInv' /\ LedgerInv'
  BY SourceStep, HeadStep, LedgerStep DEF WholeInv
<1> QED
  BY <1>1, <1>2, <1>3, RewindInvariant, PTL DEF Spec, WholeInv

\* stampTimes: "A block is indexed when it has been read WHOLE."  For every
\* history and any number of crashes, recovered panics, failed reads,
\* relaunches and address-set changes, the rows hold every log the address set
\* trusts in every block below the cursor, as long as those blocks were all read
\* from one chain, none with a write refused or under a source nobody knew,
\* eth_getLogs is not served by a node behind eth_blockNumber's, no DELETE fails,
\* and no deployment is rolled back.
THEOREM BlocksReadWhole == Behaved => (Spec => []IndexedWhole)
<1>1. WholeInv => IndexedWhole
  BY DEF WholeInv, LedgerInv, WholeBelow, IndexedWhole
<1> QED
  BY <1>1, WholeInvariant, PTL

-----------------------------------------------------------------------------
(***************************************************************************)
(* The rows belong to one address set.  The set is the recorded source: a  *)
(* source that differs is replaced only once every table is empty.         *)
(***************************************************************************)
BookOf(k) == (\A p \in pools : PoolOf(k, p)) /\ (\A s \in swaps : SwapOf(k, s))

BookInv ==
  /\ source # NoSource => BookOf(source)
  /\ pc \notin {"down", "open", "drop"} => source = cfg
  /\ pc = "drop" /\ dropped > 0 => pools = {}
  /\ pc = "drop" /\ dropped > 1 => swaps = {}
  /\ pc # "drop" => dropped = 0

\* A log a handler admits is one the running address set answers for.
LEMMA AdmittedLog ==
  ASSUME TypeOK, BookInv, pc \in {"work", "rollup"}, NEW i \in todo,
         \/ HandleCreated(i) \/ HandleInitializeV4(i) \/ HandleSwap(i) \/ HandleSwapV4(i)
  PROVE  BookOf(source)'
<1> DEFINE l == LogAt(logChain, i)
<1>1. /\ logChain \in Chains /\ i \in Positions(logChain)
      /\ source = cfg /\ source # NoSource /\ source' = source /\ kept' = kept
  BY DEF TypeOK, Working, BookInv, NoSource, Configs, HandleCreated, HandleInitializeV4, HandleSwap,
     HandleSwapV4, Handle, Take, Lose
<1>2. BookOf(source)
  BY <1>1 DEF BookInv
<1>3. CASE HandleCreated(i) \/ HandleInitializeV4(i)
  <2>1. /\ l.kind \in CreateKinds \cup {"InitializeV4"}
        /\ pools' = IF Trusted(cfg, l) THEN pools \cup {l.subject} ELSE pools
        /\ swaps' = swaps
    BY <1>3 DEF HandleCreated, HandleInitializeV4, Handle, Take, Lose
  <2>2. Trusted(cfg, l) => Sanctioned(source, l.subject)
    BY <1>1, <2>1 DEF Sanctioned
  <2> QED
    BY <1>1, <1>2, <2>1, <2>2 DEF BookOf, PoolOf, SwapOf, Sanctioned, LogAt, Trusted
<1>4. CASE HandleSwap(i) \/ HandleSwapV4(i)
  <2>1. /\ pools' = pools
        /\ \/ swaps' = swaps
           \/ swaps' = swaps \cup {<<logChain, i>>} /\ l.kind = "Swap" /\ l.emitter \in pools
           \/ swaps' = swaps \cup {<<logChain, i>>} /\ l.kind = "SwapV4" /\ Trusted(cfg, l)
    BY <1>4 DEF HandleSwap, HandleSwapV4, Handle, Take, Lose
  <2>2. CASE swaps' = swaps
    BY <1>1, <1>2, <2>1, <2>2 DEF BookOf, PoolOf, SwapOf, Sanctioned, LogAt, Trusted
  <2>3. CASE swaps' = swaps \cup {<<logChain, i>>}
    <3>1. CASE l.kind = "Swap" /\ l.emitter \in pools
      BY <1>1, <1>2, <2>1, <2>3, <3>1 DEF BookOf, PoolOf, SwapOf, Sanctioned, LogAt, Trusted
    <3>2. CASE l.kind = "SwapV4" /\ Trusted(cfg, l)
      BY <1>1, <1>2, <2>1, <2>3, <3>2 DEF BookOf, PoolOf, SwapOf, Sanctioned, LogAt, Trusted
    <3>3. CASE swaps' = swaps
      BY <2>2, <3>3
    <3> QED
      BY <2>1, <3>1, <3>2, <3>3
  <2> QED
    BY <2>1, <2>2, <2>3
<1> QED
  BY <1>3, <1>4

\* Rows that stay or go, under a source that stays, still belong to it.
LEMMA BookShrinks ==
  ASSUME BookInv, source' = source, kept' = kept, pools' \subseteq pools, swaps' \subseteq swaps
  PROVE  source' # NoSource => BookOf(source)'
  BY DEF BookInv, BookOf, PoolOf, SwapOf, Sanctioned, LogAt, Trusted, NoSource

\* Every step keeps the rows those of the recorded source, as long as
\* DropDerived's DELETEs succeed.
LEMMA BookStep == ~DropMayFail /\ TypeOK /\ BookInv /\ [Next]_vars => BookInv'
<1> SUFFICES ASSUME ~DropMayFail, TypeOK, BookInv, [Next]_vars PROVE BookInv'
  OBVIOUS
<1> USE DEF procVars, diskVars, localVars, chainVars
<1>0. Len(Tables) = 4 /\ Tables[1] = "pools" /\ Tables[2] = "swaps"
  BY DEF Tables
<1>1. ASSUME NEW k \in Configs, Start(k) PROVE BookInv'
  BY <1>1, BookShrinks DEF Start, BookInv
<1>2. CASE Open
  <2>1. /\ pc = "open" /\ pc' \in {"load", "drop"} /\ UNCHANGED <<cfg, dropped, pools, swaps>>
        /\ UNCHANGED <<source, kept>> \/ (source' = cfg /\ kept' = [pools |-> pools, swaps |-> swaps])
        /\ pc' = "load" => source' = cfg
    BY <1>2, OpenEffect DEF Open, TakeOver
  <2>2. CASE UNCHANGED <<source, kept>>
    BY <2>1, <2>2, BookShrinks DEF BookInv
  <2>3. CASE source' = cfg /\ kept' = [pools |-> pools, swaps |-> swaps]
    <3>1. \A p \in pools' : PoolOf(source, p)'
      BY <2>1, <2>3 DEF PoolOf
    <3>2. \A s \in swaps' : SwapOf(source, s)'
      BY <2>1, <2>3 DEF SwapOf
    <3> QED
      BY <2>1, <3>1, <3>2 DEF BookInv, BookOf
  <2> QED
    BY <2>1, <2>2, <2>3
<1>3. CASE DropTable
  <2>1. /\ source' = source /\ kept' = kept /\ pc = "drop" /\ pc' = "drop" /\ cfg' = cfg
        /\ dropped' = dropped + 1 /\ dropped \in Nat
    BY <1>0, <1>3 DEF DropTable, TypeOK
  <2>2. pools' \in {pools, {}} /\ swaps' \in {swaps, {}}
    BY <1>3 DEF DropTable
  <2>3. dropped = 0 => pools' = {}
    BY <1>0, <1>3 DEF DropTable
  <2>4. dropped = 1 => swaps' = {}
    BY <1>0, <1>3 DEF DropTable
  <2>5. pools' = {}
    BY <2>1, <2>2, <2>3 DEF BookInv
  <2>6. dropped' > 1 => swaps' = {}
    BY <2>1, <2>2, <2>4 DEF BookInv
  <2> QED
    BY <2>1, <2>2, <2>5, <2>6, BookShrinks DEF BookInv
<1>4. CASE Adopt
  <2>1. pc = "drop" /\ dropped = 4 /\ pools' = pools /\ swaps' = swaps /\ cfg' = cfg
        /\ source' = cfg /\ pc' = "load" /\ dropped' = 0
    BY <1>0, <1>4 DEF Adopt
  <2>2. pools' = {} /\ swaps' = {}
    BY <2>1 DEF BookInv
  <2> QED
    BY <2>1, <2>2 DEF BookInv, BookOf
<1>5. CASE Load
  BY <1>5, BookShrinks DEF Load, BookInv
<1>6. CASE \/ \E h \in 0 .. height : ReadHead(h)
           \/ EnsureGenesisHash \/ CountLowHead \/ ProbeFails \/ Probe \/ PersistRewind
  BY <1>6, BookShrinks DEF ReadHead, EnsureGenesisHash, CountLowHead, ProbeFails, Probe,
     PersistRewind, BookInv
<1>7. CASE \/ NothingNew \/ FetchFails \/ Panic \/ Advance \/ Persist
           \/ \E h \in 0 .. height : GetLogs(h)
  BY <1>7, BookShrinks DEF NothingNew, FetchFails, Panic, Advance, Persist, GetLogs, Return, BookInv
<1>8. CASE Crash \/ Mine \/ Relaunch \/ UNCHANGED vars
  BY <1>8, BookShrinks DEF Crash, Mine, Relaunch, vars, BookInv
<1>9. CASE ProcessLog
  <2>1. PICK i \in todo : \/ HandleCreated(i) \/ HandleInitializeV4(i)
                          \/ HandleSwap(i) \/ HandleSwapV4(i)
                          \/ /\ pools' = pools /\ swaps' = swaps
    BY <1>9 DEF ProcessLog, IgnoreFill, WriteFill, RollUpFill, HandleFrozen, HandleAction,
       HandleInert, LoseWrite, LoseHalfFrozen, LoseHalfFill, Handle, Take, Lose
  <2>2. /\ pc \in {"work", "rollup"} /\ pc' \in {"work", "rollup"}
        /\ UNCHANGED <<source, kept, cfg, dropped>>
    BY <1>9 DEF ProcessLog, HandleCreated, HandleInitializeV4, HandleSwap, HandleSwapV4,
       IgnoreFill, WriteFill, RollUpFill, HandleFrozen, HandleAction, HandleInert, LoseWrite, LoseHalfFrozen, LoseHalfFill,
       Handle, Take, Lose
  <2>3. source' # NoSource
    BY <2>2 DEF BookInv, TypeOK, Configs, NoSource
  <2>4. BookOf(source)'
    <3>1. CASE pools' = pools /\ swaps' = swaps
      BY <2>2, <2>3, <3>1, BookShrinks
    <3> QED
      BY <2>1, <2>2, <3>1, AdmittedLog
  <2> QED
    BY <2>2, <2>3, <2>4 DEF BookInv
<1> QED
  BY <1>1, <1>2, <1>3, <1>4, <1>5, <1>6, <1>7, <1>8, <1>9 DEF Next, Startup, Poll

\* NewWithConfig: "the source is part of the store's identity".  Whatever an older
\* build left in the file, however often the process crashes, also between DropDerived's
\* DELETEs, whichever address set each restart deploys, older ones included, and
\* however often Source() fails, a running poller's store holds no pool and no swap
\* of another address set, but those it took over when it could not tell the source,
\* provided the DELETEs and SetSource succeed.
THEOREM BookIsOwn == ~DropMayFail => (Spec => []BookMatchesSource)
<1> SUFFICES ASSUME ~DropMayFail PROVE Spec => []BookMatchesSource
  OBVIOUS
<1>1. Init => BookInv
  BY DEF Init, BookInv, NoSource
<1>2. TypeOK /\ BookInv => BookMatchesSource
  BY DEF TypeOK, BookInv, BookMatchesSource, BookOf, Opening, NoSource, Configs
<1> QED
  BY <1>1, <1>2, BookStep, TypeCorrect, PTL DEF Spec

-----------------------------------------------------------------------------
(***************************************************************************)
(* A holder's live snapshot is never older than the last freeze below the  *)
(* cursor.  A replayed batch rewrites a snapshot, so the argument is about *)
(* order: of chains, for a row is never of a later chain than the batch    *)
(* that replaces it, and of positions, for what is below a cursor or is    *)
(* already handled comes before everything still to be handled.            *)
(***************************************************************************)
OrderInv ==
  /\ logChain <= chain
  /\ \A s \in Subject : frozen[s][1] <= chain
  /\ pc \in {"work", "rollup"} => \A s \in Subject : frozen[s][1] <= logChain
  /\ pc \notin Opening \cup {"rewind"} => dLast <= lastBlock

\* The snapshot of log i's holder is log i's, or a later one's.
SnapHas(c, i) ==
  LET row == frozen[LogAt(c, i).subject] IN
    row[1] > c \/ (row[1] = c /\ row[2] >= i)

SnapBelow(n) ==
  \A c \in Chains : readOf \subseteq {c} =>
    \A i \in Positions(c) :
      (LogAt(c, i).kind = "AddressFrozen" /\ LogAt(c, i).block \in (StartBlock + 1) .. n) =>
        SnapHas(c, i)

SnapBatch ==
  \A c \in Chains : (readOf \subseteq {c} /\ headChain = c /\ logChain = c) =>
    \A i \in Positions(c) :
      (LogAt(c, i).block \in (lastBlock + 1) .. toBlock /\ i \notin todo) =>
        /\ LogAt(c, i).kind = "AddressFrozen" => SnapHas(c, i)
        /\ \A j \in todo : i < j

SnapInv ==
  /\ source = cfg => SnapBelow(dLast)
  /\ pc \notin Opening => SnapBelow(lastBlock)
  /\ pc \in {"work", "rollup"} => SnapBatch

\* A snapshot's chain and position are numbers.
LEMMA SnapshotType ==
  ASSUME TypeOK, NEW s \in Subject
  PROVE  frozen[s][1] \in Nat /\ frozen[s][2] \in Nat
<1>1. frozen[s] \in LogIds \cup {NoRow}
  BY DEF TypeOK
<1>2. CASE frozen[s] = NoRow
  BY <1>2 DEF NoRow
<1>3. CASE frozen[s] \in LogIds
  <2>1. PICK c \in Chains : frozen[s] \in {<<c, i>> : i \in Positions(c)}
    BY <1>3 DEF LogIds
  <2>2. PICK i \in Positions(c) : frozen[s] = <<c, i>>
    BY <2>1
  <2>3. c \in Nat /\ i \in Nat
    BY PositionsInNat, PollerConstants DEF Chains
  <2> QED
    BY <2>2, <2>3
<1> QED
  BY <1>1, <1>2, <1>3

\* The log a handler's step is about.
LEMMA LogInHand ==
  ASSUME TypeOK, pc \in {"work", "rollup"}, NEW i \in todo
  PROVE  /\ logChain \in Chains /\ i \in Positions(logChain) /\ i \in Nat /\ logChain \in Nat
         /\ LogAt(logChain, i).subject \in Subject /\ LogAt(logChain, i).block \in Nat
<1>1. logChain \in Chains /\ i \in Positions(logChain)
  BY DEF TypeOK, Working
<1>2. LogAt(logChain, i) \in Log
  BY <1>1, LogAtType
<1>3. i \in Nat /\ logChain \in Nat
  BY <1>1, PositionsInNat, PollerConstants DEF Chains
<1> QED
  BY <1>1, <1>2, <1>3 DEF Log

\* What a step of ProcessLog does to the snapshots and the batch.
SnapDone(i) ==
  LET l == LogAt(logChain, i) IN
    /\ pc \in {"work", "rollup"} /\ pc' \in {"work", "rollup"} /\ Front(i)
    /\ UNCHANGED <<chain, cfg, readOf, headChain, logChain, dLast, lastBlock, toBlock, source>>
    /\ \/ frozen' = frozen /\ todo' = todo
       \/ frozen' = frozen /\ todo' = todo \ {i} /\ l.kind # "AddressFrozen"
       \/ frozen' = [frozen EXCEPT ![l.subject] = <<logChain, i>>] /\ todo' = todo \ {i}

\* Only a freeze touches a snapshot, and no freeze is passed over.
LEMMA SnapEffect ==
  ASSUME WholeInv, ProcessLog
  PROVE  \E i \in todo : SnapDone(i) \/ Lost(i)
<1> USE DEF procVars, localVars, chainVars
<1>1. PICK i \in todo :
        \/ HandleCreated(i) \/ HandleInitializeV4(i) \/ HandleSwap(i) \/ HandleSwapV4(i)
        \/ IgnoreFill(i) \/ WriteFill(i) \/ RollUpFill(i)
        \/ HandleFrozen(i) \/ HandleAction(i) \/ HandleInert(i)
        \/ LoseWrite(i) \/ LoseHalfFrozen(i) \/ LoseHalfFill(i)
  BY DEF ProcessLog
<1>7. CASE LoseWrite(i) \/ LoseHalfFrozen(i) \/ LoseHalfFill(i)
  BY <1>7, LoseEffect
<1>2. CASE HandleCreated(i) \/ HandleInitializeV4(i) \/ HandleSwap(i) \/ HandleSwapV4(i)
  BY <1>2 DEF SnapDone, HandleCreated, HandleInitializeV4, HandleSwap, HandleSwapV4, Handle, Take, Lose,
     CreateKinds
<1>3. CASE IgnoreFill(i) \/ HandleAction(i) \/ HandleInert(i)
  BY <1>3 DEF SnapDone, IgnoreFill, HandleAction, HandleInert, Handle, Take, Lose
<1>4. CASE WriteFill(i)
  BY <1>4 DEF SnapDone, WriteFill
<1>5. CASE RollUpFill(i)
  <2>1. LogAt(logChain, i).kind = "DEXFill"
    BY <1>5 DEF RollUpFill, WholeInv, LedgerInv, FillInv
  <2> QED
    BY <1>5, <2>1 DEF SnapDone, RollUpFill
<1>6. CASE HandleFrozen(i)
  BY <1>6 DEF SnapDone, HandleFrozen, Handle, Take, Lose
<1> QED
  BY <1>1, <1>2, <1>3, <1>4, <1>5, <1>6, <1>7

\* Chains and cursors only move the way the order needs.
LEMMA OrderStep ==
  ASSUME Behaved, WholeInv, OrderInv, [Next]_vars
  PROVE  OrderInv'
<1> USE DEF WholeInv, procVars, localVars, diskVars, chainVars
<1>0. /\ lastBlock \in Nat /\ dLast \in Nat /\ StartBlock \in Nat /\ toBlock \in Nat
      /\ chain \in Nat /\ logChain \in Nat
  BY PollerConstants DEF TypeOK, Chains
<1>1. ASSUME pc \in {"work", "rollup"} \/ pc' \notin {"work", "rollup"},
             frozen' = frozen, chain' = chain, logChain' = logChain \/ logChain' = 0,
             pc' \in {"work", "rollup"} => logChain' = logChain,
             pc' \notin Opening \cup {"rewind"} => dLast' <= lastBlock'
      PROVE  OrderInv'
  BY <1>0, <1>1 DEF OrderInv
<1>2. CASE Startup
  <2>1. CASE DropTable
    <3>1. /\ pc = "drop" /\ pc' = "drop" /\ chain' = chain /\ logChain' = logChain
          /\ frozen' = frozen \/ frozen' = [s \in Subject |-> NoRow]
      BY <2>1 DEF DropTable
    <3>2. \A s \in Subject : frozen'[s][1] <= chain
      BY <1>0, <3>1 DEF OrderInv, NoRow
    <3> QED
      BY <3>1, <3>2 DEF OrderInv, Opening
  <2>2. CASE Load
    <3>1. dLast' <= lastBlock'
      BY <1>0, <2>2 DEF Load
    <3> QED
      BY <1>1, <2>2, <3>1 DEF Load
  <2>3. CASE (\E k \in Configs : Start(k)) \/ Open \/ Adopt
    BY <1>1, <2>3 DEF Start, Open, TakeOver, Adopt, Opening
  <2> QED
    BY <1>2, <2>1, <2>2, <2>3 DEF Startup
<1>3. CASE \/ \E h \in 0 .. height : ReadHead(h)
           \/ EnsureGenesisHash \/ CountLowHead \/ ProbeFails
           \/ NothingNew \/ FetchFails \/ Panic
  <2>1. /\ pc \notin Opening \cup {"rewind"}
        /\ UNCHANGED <<frozen, chain, dLast, lastBlock>>
        /\ logChain' = logChain \/ logChain' = 0
        /\ pc' \notin {"work", "rollup"}
    BY <1>3 DEF ReadHead, EnsureGenesisHash, CountLowHead, ProbeFails, NothingNew, FetchFails,
       Panic, Return, Opening
  <2> QED
    BY <1>1, <2>1 DEF OrderInv
<1>4. CASE Probe
  <2>1. /\ pc = "probe" /\ UNCHANGED <<frozen, chain, dLast, logChain>>
        /\ pc' = "rewind" \/ (pc' = "range" /\ lastBlock' = lastBlock)
    BY <1>4 DEF Probe
  <2> QED
    BY <1>1, <2>1 DEF OrderInv, Opening
<1>5. CASE PersistRewind
  <2>1. /\ pc = "rewind" /\ pc' = "range" /\ UNCHANGED <<frozen, chain, logChain, lastBlock>>
        /\ dLast' = StartBlock
    BY <1>5 DEF PersistRewind
  <2>2. lastBlock = StartBlock
    BY <2>1 DEF HeadInv
  <2> QED
    BY <1>0, <1>1, <2>1, <2>2
<1>6. ASSUME NEW h \in 0 .. height, GetLogs(h) PROVE OrderInv'
  <2>1. /\ pc = "range" /\ logChain' = chain
        /\ UNCHANGED <<chain, frozen, dLast, lastBlock>>
    BY <1>6 DEF GetLogs
  <2> QED
    BY <1>0, <2>1 DEF OrderInv, Opening
<1>7. CASE Advance
  <2>1. /\ pc = "work" /\ pc' = "persist" /\ lastBlock' = toBlock
        /\ UNCHANGED <<frozen, chain, logChain, dLast>>
    BY <1>7 DEF Advance
  <2>2. dLast <= toBlock
    BY <1>0, <2>1 DEF OrderInv, RewindInv, Opening
  <2> QED
    BY <1>1, <2>1, <2>2
<1>8. CASE Persist
  <2>1. dLast' <= lastBlock'
    BY <1>0, <1>8 DEF Persist
  <2> QED
    BY <1>1, <1>8, <2>1 DEF Persist, Return
<1>9. CASE Crash
  BY <1>1, <1>9 DEF Crash, Opening
<1>10. CASE Mine \/ Relaunch \/ UNCHANGED vars
  <2>1. /\ chain' = chain \/ chain' = chain + 1
        /\ UNCHANGED <<pc, frozen, logChain, dLast, lastBlock>>
    BY <1>10 DEF Mine, Relaunch, vars
  <2>2. \A s \in Subject : frozen[s][1] \in Nat
    BY SnapshotType
  <2> QED
    BY <1>0, <2>1, <2>2 DEF OrderInv
<1>11. CASE ProcessLog
  <2>1. PICK i \in todo : SnapDone(i) \/ Lost(i)
    BY <1>11, SnapEffect
  <2>2. /\ pc \in {"work", "rollup"} /\ pc' \in {"work", "rollup"}
        /\ UNCHANGED <<chain, logChain, dLast, lastBlock>>
    BY <2>1 DEF SnapDone, Lost
  <2>3. \A s \in Subject : frozen'[s][1] = frozen[s][1] \/ frozen'[s][1] = logChain
    <3>1. frozen \in [Subject -> LogIds \cup {NoRow}]
      BY DEF TypeOK
    <3>2. frozen' = frozen \/ frozen' = [frozen EXCEPT ![LogAt(logChain, i).subject] = <<logChain, i>>]
      BY <2>1 DEF SnapDone, Lost
    <3> QED
      BY <3>1, <3>2
  <2> QED
    BY <1>0, <2>2, <2>3 DEF OrderInv, Opening
<1> QED
  BY <1>2, <1>3, <1>4, <1>5, <1>6, <1>7, <1>8, <1>9, <1>10, <1>11 DEF Next, Poll

\* A handler's step takes no snapshot back behind a log that comes before its own.
LEMMA SnapKept ==
  ASSUME TypeOK, OrderInv, NEW i \in todo, SnapDone(i),
         NEW c \in Chains, NEW j \in Positions(c), SnapHas(c, j), c = logChain => j < i
  PROVE  SnapHas(c, j)'
<1> DEFINE s == LogAt(c, j).subject
           l == LogAt(logChain, i)
<1>1. s \in Subject /\ s' = s /\ c \in Nat /\ j \in Nat
  BY LogAtType, PositionsInNat, PollerConstants DEF Log, LogAt, Chains
<1>2. /\ frozen[s][1] \in Nat /\ frozen[s][2] \in Nat /\ frozen[s][1] <= logChain
      /\ i \in Nat /\ logChain \in Nat
  BY <1>1, SnapshotType, LogInHand DEF OrderInv, SnapDone
<1>3. frozen'[s] = frozen[s] \/ frozen'[s] = <<logChain, i>>
  <2>1. frozen \in [Subject -> LogIds \cup {NoRow}]
    BY DEF TypeOK
  <2>2. frozen' = frozen \/ frozen' = [frozen EXCEPT ![l.subject] = <<logChain, i>>]
    BY DEF SnapDone
  <2> HIDE DEF s, l
  <2> QED
    BY <1>1, <2>1, <2>2
<1>4. frozen[s][1] > c \/ (frozen[s][1] = c /\ frozen[s][2] >= j)
  BY DEF SnapHas
<1>5. frozen'[s][1] > c \/ (frozen'[s][1] = c /\ frozen'[s][2] >= j)
  <2> HIDE DEF s, l
  <2>1. CASE frozen'[s] = frozen[s]
    BY <1>4, <2>1
  <2>2. CASE frozen'[s] = <<logChain, i>>
    <3>1. frozen'[s][1] = logChain /\ frozen'[s][2] = i
      BY <2>2
    <3> QED
      BY <1>1, <1>2, <1>4, <3>1
  <2> QED
    BY <1>3, <2>1, <2>2
<1> QED
  BY <1>5 DEF SnapHas, LogAt

\* A log of the batch comes after every log of its chain below the cursor.
LEMMA BelowComesBefore ==
  ASSUME WholeInv, pc \in {"work", "rollup"}, NEW i \in todo, NEW j \in Positions(logChain),
         LogAt(logChain, j).block <= lastBlock
  PROVE  j < i
<1>1. /\ logChain \in Chains /\ i \in Positions(logChain) /\ i \in Nat
      /\ LogAt(logChain, i).block \in Nat
  BY LogInHand DEF WholeInv
<1>2. j \in Nat /\ LogAt(logChain, j).block \in Nat
  BY <1>1, PositionsInNat, LogAtType DEF Log
<1>3. LogAt(logChain, i).block > lastBlock /\ lastBlock \in Nat
  BY <1>1 DEF WholeInv, HeadInv, TypeOK
<1>4. i < j => LogAt(logChain, i).block <= LogAt(logChain, j).block
  BY <1>1, LogsInBlockOrder DEF LogAt
<1>5. i # j
  BY <1>1, <1>2, <1>3
<1> QED
  BY <1>1, <1>2, <1>3, <1>4, <1>5

\* A cursor at or below StartBlock has no freeze below it.
LEMMA NoFreezeBelowStart ==
  ASSUME NEW n \in Nat, n <= StartBlock
  PROVE  SnapBelow(n)
  BY PollerConstants DEF SnapBelow

\* A step that touches neither snapshots nor cursors keeps what they say.
LEMMA SnapQuiet ==
  ASSUME SnapInv, pc' \notin {"work", "rollup"}, pc \in Opening => pc' \in Opening,
         UNCHANGED <<frozen, cfg, readOf, dLast, lastBlock, source>>
  PROVE  SnapInv'
  BY DEF SnapInv, SnapBelow, SnapHas, LogAt, Positions

\* Every step keeps the snapshots up with both cursors.
LEMMA SnapStep ==
  ASSUME Behaved, WholeInv, OrderInv, SnapInv, [Next]_vars
  PROVE  SnapInv'
<1> USE DEF WholeInv, procVars, localVars, diskVars
<1>0. StartBlock \in Nat /\ StartBlock <= StartBlock
  BY PollerConstants
<1>1. ASSUME NEW k \in Configs, Start(k) PROVE SnapInv'
  <2>1. /\ pc = "down" /\ pc' = "open" /\ cfg' = k /\ k >= cfg
        /\ UNCHANGED <<frozen, readOf, dLast, source>>
    BY <1>1 DEF Start, Behaved
  <2>2. source' = cfg' => source = cfg
    BY <2>1, PollerConstants DEF SourceInv, TypeOK, Configs, NoSource
  <2> QED
    BY <2>1, <2>2 DEF SnapInv, SnapBelow, SnapHas, Opening
<1>2. CASE Open
  <2>1. /\ pc = "open" /\ pc' \in {"load", "drop"}
        /\ UNCHANGED <<frozen, cfg, dLast, lastBlock>>
        /\ UNCHANGED <<source, readOf>> \/ dLast = 0 \/ NoChain \in readOf'
        /\ readOf \subseteq readOf'
    BY <1>2, OpenEffect DEF Behaved
  <2>2. CASE dLast = 0
    <3>1. dLast \in Nat /\ dLast <= StartBlock /\ dLast' = dLast
      BY <2>1, <2>2, PollerConstants
    <3>2. SnapBelow(dLast)
      BY <3>1, NoFreezeBelowStart
    <3> QED
      BY <2>1, <3>2 DEF SnapInv, SnapBelow, SnapHas, Opening
  <2>3. CASE UNCHANGED <<source, readOf>>
    BY <2>1, <2>3, SnapQuiet DEF Opening
  <2>4. CASE NoChain \in readOf'
    BY <2>1, <2>4, NobodyVouches DEF SnapInv, SnapBelow, Opening
  <2> QED
    BY <2>1, <2>2, <2>3, <2>4
<1>3. CASE DropTable
  BY <1>3 DEF DropTable, SnapInv, SourceInv, Opening
<1>4. CASE Adopt
  <2>1. dLast = 0 /\ dLast' = 0 /\ pc' = "load" /\ UNCHANGED <<frozen, readOf>>
    BY <1>4 DEF Adopt, Behaved, SourceInv
  <2>2. SnapBelow(dLast)
    BY <1>0, <2>1, NoFreezeBelowStart
  <2> QED
    BY <2>1, <2>2 DEF SnapInv, SnapBelow, SnapHas, Opening
<1>5. CASE Load
  <2>1. /\ pc = "load" /\ pc' = "idle"
        /\ lastBlock' = IF dLast < StartBlock THEN StartBlock ELSE dLast
        /\ UNCHANGED <<frozen, cfg, readOf, dLast, source>>
    BY <1>5 DEF Load
  <2>2. SnapBelow(dLast) /\ SnapBelow(StartBlock)
    BY <1>0, <2>1, NoFreezeBelowStart DEF SnapInv, SourceInv
  <2>3. SnapBelow(lastBlock')
    BY <2>1, <2>2
  <2> QED
    BY <2>1, <2>2, <2>3 DEF SnapInv, SnapBelow, SnapHas
<1>6. CASE \/ \E h \in 0 .. height : ReadHead(h)
           \/ EnsureGenesisHash \/ CountLowHead \/ ProbeFails
           \/ NothingNew \/ FetchFails \/ Panic
  BY <1>6, SnapQuiet DEF ReadHead, EnsureGenesisHash, CountLowHead, ProbeFails, NothingNew,
     FetchFails, Panic, Return, Opening
<1>7. CASE Probe
  <2>1. /\ pc = "probe" /\ pc' \in {"range", "rewind"}
        /\ UNCHANGED <<frozen, cfg, readOf, dLast, source>>
        /\ lastBlock' = lastBlock \/ lastBlock' = StartBlock
    BY <1>7 DEF Probe
  <2>2. SnapBelow(lastBlock) /\ SnapBelow(StartBlock)
    BY <1>0, <2>1, NoFreezeBelowStart DEF SnapInv, Opening
  <2>3. SnapBelow(lastBlock')
    BY <2>1, <2>2
  <2> QED
    BY <2>1, <2>3 DEF SnapInv, SnapBelow, SnapHas
<1>8. CASE PersistRewind
  <2>1. /\ pc = "rewind" /\ pc' = "range" /\ dLast' = StartBlock /\ lastBlock' = StartBlock
        /\ frozen' = frozen /\ readOf' = {}
    BY <1>8 DEF PersistRewind, HeadInv
  <2>2. SnapBelow(StartBlock)'
    BY <1>0 DEF SnapBelow
  <2> QED
    BY <2>1, <2>2 DEF SnapInv, SnapBelow
<1>9. ASSUME NEW h \in 0 .. height, GetLogs(h) PROVE SnapInv'
  <2>1. /\ pc = "range" /\ pc' = "work"
        /\ UNCHANGED <<frozen, cfg, readOf, dLast, lastBlock, source>>
    BY <1>9 DEF GetLogs
  <2>2. SnapBatch'
    <3> SUFFICES ASSUME NEW c \in Chains, headChain' = c, logChain' = c,
                        NEW i \in Positions(c),
                        LogAt(c, i).block \in (lastBlock' + 1) .. toBlock'
                 PROVE  i \in todo'
      BY DEF SnapBatch, LogAt, Positions
    <3> QED
      BY <1>9, NoneMissed
  <2> QED
    BY <2>1, <2>2 DEF SnapInv, SnapBelow, SnapHas, Opening
<1>10. CASE Advance
  <2>1. /\ pc = "work" /\ pc' = "persist" /\ todo = {} /\ lastBlock' = toBlock
        /\ readOf' = readOf \cup {headChain, logChain}
        /\ UNCHANGED <<frozen, cfg, dLast, source>>
    BY <1>10 DEF Advance
  <2>2. ASSUME NEW c \in Chains, readOf' \subseteq {c}, NEW i \in Positions(c),
               LogAt(c, i).kind = "AddressFrozen",
               LogAt(c, i).block \in (StartBlock + 1) .. toBlock
        PROVE  SnapHas(c, i)
    <3>1. readOf \subseteq {c} /\ headChain = c /\ logChain = c
      BY <2>1, <2>2
    <3>2. lastBlock \in Nat /\ toBlock \in Nat /\ LogAt(c, i).block \in Nat
      BY LogAtType DEF TypeOK, Log
    <3>3. CASE LogAt(c, i).block <= lastBlock
      <4>1. LogAt(c, i).block \in (StartBlock + 1) .. lastBlock
        BY <1>0, <2>2, <3>2, <3>3
      <4> QED
        BY <2>1, <2>2, <3>1, <4>1 DEF SnapInv, SnapBelow, Opening
    <3>4. CASE LogAt(c, i).block > lastBlock
      <4>1. LogAt(c, i).block \in (lastBlock + 1) .. toBlock
        BY <1>0, <2>2, <3>2, <3>4
      <4> QED
        BY <2>1, <2>2, <3>1, <4>1 DEF SnapInv, SnapBatch
    <3> QED
      BY <3>2, <3>3, <3>4
  <2>3. SnapBelow(lastBlock)'
    BY <2>1, <2>2 DEF SnapBelow, SnapHas
  <2>4. source' = cfg' => SnapBelow(dLast)'
    BY <2>1 DEF SnapInv, SnapBelow, SnapHas
  <2> QED
    BY <2>1, <2>3, <2>4 DEF SnapInv
<1>11. CASE Persist
  <2>1. /\ pc = "persist" /\ pc' = "idle" /\ dLast' = lastBlock
        /\ UNCHANGED <<frozen, cfg, readOf, lastBlock, source>>
    BY <1>11 DEF Persist, Return
  <2> QED
    BY <2>1 DEF SnapInv, SnapBelow, SnapHas, Opening
<1>12. CASE Crash
  <2>1. pc' = "down" /\ UNCHANGED <<frozen, cfg, readOf, dLast, source>>
    BY <1>12 DEF Crash
  <2> QED
    BY <2>1 DEF SnapInv, SnapBelow, SnapHas, Opening
<1>13. CASE Mine \/ Relaunch \/ UNCHANGED vars
  <2>1. UNCHANGED <<pc, frozen, cfg, readOf, dLast, lastBlock, source, headChain, logChain,
                    toBlock, todo>>
    BY <1>13 DEF Mine, Relaunch, vars
  <2> QED
    BY <2>1 DEF SnapInv, SnapBelow, SnapBatch, SnapHas
<1>15. ASSUME NEW i \in todo, Lost(i) PROVE SnapInv'
  BY <1>15, NobodyVouches DEF Lost, SnapInv, SnapBelow, SnapBatch
<1>14. ASSUME NEW i \in todo, SnapDone(i) PROVE SnapInv'
  <2>1. SnapDone(i)
    BY <1>14
  <2>2. /\ pc \in {"work", "rollup"} /\ pc' \in {"work", "rollup"} /\ Front(i)
        /\ UNCHANGED <<cfg, readOf, headChain, logChain, dLast, lastBlock, toBlock, source>>
    BY <2>1 DEF SnapDone
  <2>3. ASSUME NEW n \in Nat, n <= lastBlock, SnapBelow(n)
        PROVE  SnapBelow(n)'
    <3> SUFFICES ASSUME NEW c \in Chains, readOf \subseteq {c}, NEW j \in Positions(c),
                        LogAt(c, j).kind = "AddressFrozen",
                        LogAt(c, j).block \in (StartBlock + 1) .. n
                 PROVE  SnapHas(c, j)'
      BY <2>2 DEF SnapBelow
    <3>1. SnapHas(c, j)
      BY <2>3 DEF SnapBelow
    <3>2. LogAt(c, j).block <= lastBlock
      BY <1>0, <2>3, LogAtType DEF TypeOK, Log
    <3>3. c = logChain => j < i
      BY <2>2, <3>2, BelowComesBefore
    <3> QED
      BY <2>1, <3>1, <3>3, SnapKept
  <2>4. lastBlock \in Nat /\ dLast \in Nat /\ dLast <= lastBlock
    BY <2>2 DEF TypeOK, OrderInv, Opening
  <2>5. (source = cfg => SnapBelow(dLast)') /\ SnapBelow(lastBlock)'
    BY <2>2, <2>3, <2>4 DEF SnapInv, Opening, SnapBelow
  <2>6. SnapBatch'
    <3> SUFFICES ASSUME NEW c \in Chains, readOf \subseteq {c}, headChain = c, logChain = c,
                        NEW j \in Positions(c),
                        LogAt(c, j).block \in (lastBlock + 1) .. toBlock, j \notin todo'
                 PROVE  /\ LogAt(c, j).kind = "AddressFrozen" => SnapHas(c, j)'
                        /\ \A t \in todo' : j < t
      BY <2>2 DEF SnapBatch
    <3>1. todo' = todo \/ todo' = todo \ {i}
      BY <2>1 DEF SnapDone
    <3>2. CASE j \notin todo
      <4>1. LogAt(c, j).kind = "AddressFrozen" => SnapHas(c, j)
        BY <2>2, <3>2 DEF SnapInv, SnapBatch
      <4>2. \A t \in todo : j < t
        BY <2>2, <3>2 DEF SnapInv, SnapBatch
      <4> QED
        BY <2>1, <3>1, <4>1, <4>2, SnapKept
    <3>3. CASE j \in todo
      <4>1. j = i /\ todo' = todo \ {i}
        BY <3>1, <3>3
      <4>2. \A t \in todo' : j < t
        <5> SUFFICES ASSUME NEW t \in todo \ {i} PROVE i < t
          BY <4>1
        <5>1. i \in Nat /\ t \in Nat
          BY <2>2, LogInHand
        <5> QED
          BY <2>2, <5>1 DEF Front
      <4>3. LogAt(c, j).kind = "AddressFrozen" => SnapHas(c, j)'
        <5> SUFFICES ASSUME LogAt(c, i).kind = "AddressFrozen" PROVE SnapHas(c, i)'
          BY <4>1
        <5>1. todo' # todo
          BY <4>1
        <5>2. frozen' = [frozen EXCEPT ![LogAt(logChain, i).subject] = <<logChain, i>>]
          BY <2>1, <5>1 DEF SnapDone
        <5>3. LogAt(c, i).subject \in Subject /\ frozen \in [Subject -> LogIds \cup {NoRow}]
          BY <2>2, LogInHand DEF TypeOK
        <5>4. frozen'[LogAt(c, i).subject] = <<c, i>>
          BY <5>2, <5>3
        <5>5. i \in Nat
          BY <2>2, LogInHand
        <5> QED
          BY <5>4, <5>5 DEF SnapHas, LogAt
      <4> QED
        BY <4>2, <4>3
    <3> QED
      BY <3>2, <3>3
  <2> QED
    BY <2>2, <2>5, <2>6 DEF SnapInv
<1>16. CASE ProcessLog
  BY <1>14, <1>15, <1>16, SnapEffect
<1> QED
  BY <1>1, <1>2, <1>3, <1>4, <1>5, <1>6, <1>7, <1>8, <1>9, <1>10, <1>11, <1>12, <1>13,
     <1>16 DEF Next, Startup, Poll

\* handleAddressFrozen and handleTokensFrozen: whatever crashes, abandoned and
\* replayed batches, relaunches and address-set changes occur, a holder's live
\* snapshot is never older than the last freeze below the cursor, for every
\* history, as long as no write below the cursor was refused, the endpoint's nodes
\* agree, the DELETEs succeed and no deployment is rolled back.
THEOREM SnapshotsKeepUp == Behaved => (Spec => []SnapshotNotBehind)
<1> SUFFICES ASSUME Behaved PROVE Spec => []SnapshotNotBehind
  OBVIOUS
<1>1. Init => OrderInv /\ SnapInv
  <2> SUFFICES ASSUME Init PROVE OrderInv /\ SnapInv
    OBVIOUS
  <2>1. OrderInv
    <3>1. PICK o \in OldStores \cup {EmptyStore} : frozen = o.frozen
      BY DEF Init
    <3>2. \A t \in Subject : EmptyStore.frozen[t][1] <= 1
      BY DEF EmptyStore, NoRow
    <3>3. \A t \in Subject : frozen[t][1] <= 1
      BY <3>1, <3>2, OldStoresAreStores
    <3> QED
      BY <3>3, PollerConstants DEF Init, OrderInv, Opening
  <2>2. source # cfg /\ pc = "down"
    BY DEF Init, NoSource
  <2>3. SnapInv
    BY <2>2 DEF SnapInv, Opening
  <2> QED
    BY <2>1, <2>3
<1>2. WholeInv /\ OrderInv /\ SnapInv /\ [Next]_vars => OrderInv' /\ SnapInv'
  BY OrderStep, SnapStep
<1>3. SnapInv => SnapshotNotBehind
  BY DEF SnapInv, SnapBelow, SnapHas, SnapshotNotBehind
<1> QED
  BY <1>1, <1>2, <1>3, WholeInvariant, PTL DEF Spec

-----------------------------------------------------------------------------
(***************************************************************************)
(* A market's tradeCount never loses a fill below the cursor.  It counts   *)
(* at least the fills below the cursor and those of the batch already      *)
(* handled: a fill leaves the batch in the step that bumps the count.      *)
(***************************************************************************)
FillsDone(k, c, m) ==
  FillsBelow(k, c, m, lastBlock) \cup {i \in FillsBelow(k, c, m, toBlock) : i \notin todo}

TallyBelow(n) ==
  \A c \in Chains : readOf \subseteq {c} =>
    \A m \in Subject : tally[m] >= Cardinality(FillsBelow(cfg, c, m, n))

TallyBatch ==
  \A c \in Chains : (readOf \subseteq {c} /\ headChain = c /\ logChain = c) =>
    \A m \in Subject : tally[m] >= Cardinality(FillsDone(cfg, c, m))

TallyInv ==
  /\ source = cfg => TallyBelow(dLast)
  /\ pc \notin Opening => TallyBelow(lastBlock)
  /\ pc \in {"work", "rollup"} => TallyBatch

\* The fills of a chain are finitely many.
LEMMA FillsFinite ==
  ASSUME NEW c \in Chains, NEW S \in SUBSET Positions(c)
  PROVE  IsFiniteSet(S) /\ Cardinality(S) \in Nat
<1>1. Positions(c) = 1 .. Len(History[c]) /\ Len(History[c]) \in Nat
  BY PollerConstants DEF Positions
<1>2. IsFiniteSet(Positions(c))
  BY <1>1, FS_Interval
<1>3. IsFiniteSet(S)
  BY <1>2, FS_Subset
<1> QED
  BY <1>3, FS_CardinalityType

\* A cursor at or below StartBlock has no fill below it.
LEMMA NoFillBelowStart ==
  ASSUME TypeOK, NEW n \in Nat, n <= StartBlock
  PROVE  TallyBelow(n)
<1> SUFFICES ASSUME NEW c \in Chains, NEW m \in Subject
             PROVE  tally[m] >= Cardinality(FillsBelow(cfg, c, m, n))
  BY DEF TallyBelow
<1>1. FillsBelow(cfg, c, m, n) = {}
  BY PollerConstants DEF FillsBelow
<1>2. Cardinality(FillsBelow(cfg, c, m, n)) = 0
  BY <1>1, FS_EmptySet
<1> QED
  BY <1>2 DEF TypeOK

\* A step that touches neither tallies nor cursors keeps what they say.
LEMMA TallyQuiet ==
  ASSUME TallyInv, pc' \notin {"work", "rollup"}, pc \in Opening => pc' \in Opening,
         UNCHANGED <<tally, cfg, readOf, dLast, lastBlock, source>>
  PROVE  TallyInv'
  BY DEF TallyInv, TallyBelow, FillsBelow, LogAt, Trusted, Positions

\* What a step of ProcessLog does to the tallies and the batch.
TallyDone(i) ==
  LET l == LogAt(logChain, i) IN
    /\ pc \in {"work", "rollup"} /\ pc' \in {"work", "rollup"}
    /\ UNCHANGED <<cfg, readOf, headChain, logChain, dLast, lastBlock, toBlock, source>>
    /\ \/ tally' = tally /\ todo' = todo
       \/ tally' = tally /\ todo' = todo \ {i} /\ ~(l.kind = "DEXFill" /\ Trusted(cfg, l))
       \/ tally' = [tally EXCEPT ![l.subject] = @ + 1] /\ todo' = todo \ {i}

\* A trusted fill leaves the batch only in the step that counts it.
LEMMA TallyEffect ==
  ASSUME ProcessLog
  PROVE  \E i \in todo : TallyDone(i) \/ Lost(i)
<1> USE DEF procVars, localVars, chainVars
<1>1. PICK i \in todo :
        \/ HandleCreated(i) \/ HandleInitializeV4(i) \/ HandleSwap(i) \/ HandleSwapV4(i)
        \/ IgnoreFill(i) \/ WriteFill(i) \/ RollUpFill(i)
        \/ HandleFrozen(i) \/ HandleAction(i) \/ HandleInert(i)
        \/ LoseWrite(i) \/ LoseHalfFrozen(i) \/ LoseHalfFill(i)
  BY DEF ProcessLog
<1>6. CASE LoseWrite(i) \/ LoseHalfFrozen(i) \/ LoseHalfFill(i)
  BY <1>6, LoseEffect
<1>2. CASE HandleCreated(i) \/ HandleInitializeV4(i) \/ HandleSwap(i) \/ HandleSwapV4(i)
  BY <1>2 DEF TallyDone, HandleCreated, HandleInitializeV4, HandleSwap, HandleSwapV4, Handle, Take, Lose,
     CreateKinds
<1>3. CASE IgnoreFill(i) \/ HandleAction(i) \/ HandleInert(i) \/ HandleFrozen(i)
  BY <1>3 DEF TallyDone, IgnoreFill, HandleAction, HandleInert, HandleFrozen, Handle, Take, Lose
<1>4. CASE WriteFill(i)
  BY <1>4 DEF TallyDone, WriteFill
<1>5. CASE RollUpFill(i)
  BY <1>5 DEF TallyDone, RollUpFill
<1> QED
  BY <1>1, <1>2, <1>3, <1>4, <1>5, <1>6

\* A step of ProcessLog counts what it adds to the handled fills.
LEMMA TallyKept ==
  ASSUME TypeOK, NEW i \in todo, TallyDone(i),
         NEW c \in Chains, c = logChain, NEW m \in Subject,
         tally[m] >= Cardinality(FillsDone(cfg, c, m))
  PROVE  tally'[m] >= Cardinality(FillsDone(cfg, c, m))'
<1> DEFINE l == LogAt(logChain, i)
           D == FillsDone(cfg, c, m)
<1>1. /\ UNCHANGED <<cfg, lastBlock, toBlock, logChain>>
      /\ todo' \in {todo, todo \ {i}}
  BY DEF TallyDone
<1>2. FillsDone(cfg, c, m)' \in SUBSET (D \cup {i})
  BY <1>1 DEF FillsDone, FillsBelow, LogAt, Trusted, Positions
<1>3. D \in SUBSET Positions(c)
  BY DEF FillsDone, FillsBelow
<1>4. IsFiniteSet(D) /\ Cardinality(D) \in Nat
  BY <1>3, FillsFinite
<1>5. tally \in [Subject -> Nat] /\ tally[m] \in Nat
  BY DEF TypeOK
<1> DEFINE d == Cardinality(D)
           e == Cardinality(FillsDone(cfg, c, m))'
<1>0. tally[m] >= d
  OBVIOUS
<1>6. CASE FillsDone(cfg, c, m)' = D
  <2>1. tally'[m] >= tally[m]
    <3>1. \/ tally' = tally
          \/ tally' = [tally EXCEPT ![l.subject] = @ + 1]
      BY DEF TallyDone
    <3> HIDE DEF l
    <3> QED
      BY <1>5, <3>1
  <2>2. tally'[m] \in Nat
    <3>1. \/ tally' = tally
          \/ tally' = [tally EXCEPT ![l.subject] = @ + 1]
      BY DEF TallyDone
    <3> HIDE DEF l
    <3> QED
      BY <1>5, <3>1
  <2>3. e = d /\ d \in Nat
    BY <1>4, <1>6
  <2>4. tally'[m] >= e
    <3> HIDE DEF d, e
    <3> QED
      BY <1>0, <1>5, <2>1, <2>2, <2>3
  <2> QED
    BY <2>4
<1>7. CASE FillsDone(cfg, c, m)' # D
  <2>1. D \subseteq FillsDone(cfg, c, m)'
    BY <1>1 DEF FillsDone, FillsBelow, LogAt, Trusted, Positions
  <2>2. i \in FillsDone(cfg, c, m)' /\ i \notin D
    BY <1>2, <1>7, <2>1
  <2>3. FillsDone(cfg, c, m)' = D \cup {i}
    BY <1>2, <2>1, <2>2
  <2>4. l.kind = "DEXFill" /\ Trusted(cfg, l) /\ l.subject = m
    BY <1>1, <2>2 DEF FillsDone, FillsBelow, LogAt, Trusted, Positions
  <2>5. todo' # todo
    BY <1>1, <1>7 DEF FillsDone, FillsBelow, LogAt, Trusted, Positions
  <2>6. tally' = [tally EXCEPT ![m] = tally[m] + 1]
    BY <2>4, <2>5 DEF TallyDone
  <2>7. tally'[m] = tally[m] + 1
    BY <1>5, <2>6
  <2>8. Cardinality(D \cup {i}) = Cardinality(D) + 1
    BY <1>4, <2>2, FS_AddElement
  <2>9. e = d + 1 /\ d \in Nat
    BY <1>4, <2>3, <2>8
  <2>10. tally'[m] >= e
    <3> HIDE DEF d, e
    <3> QED
      BY <1>0, <1>5, <2>7, <2>9
  <2> QED
    BY <2>10
<1> QED
  BY <1>6, <1>7

\* Every step keeps the tallies up with both cursors.
LEMMA TallyStep ==
  ASSUME Behaved, WholeInv, TallyInv, [Next]_vars
  PROVE  TallyInv'
<1> USE DEF WholeInv, procVars, localVars, diskVars
<1>0. StartBlock \in Nat /\ StartBlock <= StartBlock
  BY PollerConstants
<1>1. ASSUME NEW k \in Configs, Start(k) PROVE TallyInv'
  <2>1. /\ pc = "down" /\ pc' = "open" /\ cfg' = k /\ k >= cfg
        /\ UNCHANGED <<tally, readOf, dLast, source>>
    BY <1>1 DEF Start, Behaved
  <2>2. source' = cfg' => source = cfg /\ cfg' = cfg
    BY <2>1, PollerConstants DEF SourceInv, TypeOK, Configs, NoSource
  <2> QED
    BY <2>1, <2>2 DEF TallyInv, TallyBelow, Opening
<1>2. CASE Open
  <2>1. /\ pc = "open" /\ pc' \in {"load", "drop"}
        /\ UNCHANGED <<tally, cfg, dLast, lastBlock>>
        /\ UNCHANGED <<source, readOf>> \/ dLast = 0 \/ NoChain \in readOf'
        /\ readOf \subseteq readOf'
    BY <1>2, OpenEffect DEF Behaved
  <2>2. CASE dLast = 0
    <3>1. dLast \in Nat /\ dLast <= StartBlock
      BY <2>1, <2>2, PollerConstants
    <3>2. TallyBelow(dLast)
      BY <3>1, NoFillBelowStart
    <3> QED
      BY <2>1, <3>2 DEF TallyInv, TallyBelow, Opening
  <2>3. CASE UNCHANGED <<source, readOf>>
    BY <2>1, <2>3, TallyQuiet DEF Opening
  <2>4. CASE NoChain \in readOf'
    BY <2>1, <2>4, NobodyVouches DEF TallyInv, TallyBelow, Opening
  <2> QED
    BY <2>1, <2>2, <2>3, <2>4
<1>3. CASE DropTable
  BY <1>3 DEF DropTable, TallyInv, SourceInv, Opening
<1>4. CASE Adopt
  <2>1. dLast = 0 /\ pc' = "load" /\ UNCHANGED <<tally, readOf, dLast, cfg>>
    BY <1>4 DEF Adopt, Behaved, SourceInv
  <2>2. TallyBelow(dLast)
    BY <1>0, <2>1, NoFillBelowStart
  <2> QED
    BY <2>1, <2>2 DEF TallyInv, TallyBelow, Opening
<1>5. CASE Load
  <2>1. /\ pc = "load" /\ pc' = "idle"
        /\ lastBlock' = IF dLast < StartBlock THEN StartBlock ELSE dLast
        /\ UNCHANGED <<tally, cfg, readOf, dLast, source>>
    BY <1>5 DEF Load
  <2>2. TallyBelow(dLast) /\ TallyBelow(StartBlock)
    BY <1>0, <2>1, NoFillBelowStart DEF TallyInv, SourceInv
  <2>3. TallyBelow(lastBlock')
    BY <2>1, <2>2
  <2> QED
    BY <2>1, <2>2, <2>3 DEF TallyInv, TallyBelow
<1>6. CASE \/ \E h \in 0 .. height : ReadHead(h)
           \/ EnsureGenesisHash \/ CountLowHead \/ ProbeFails
           \/ NothingNew \/ FetchFails \/ Panic
  BY <1>6, TallyQuiet DEF ReadHead, EnsureGenesisHash, CountLowHead, ProbeFails, NothingNew,
     FetchFails, Panic, Return, Opening
<1>7. CASE Probe
  <2>1. /\ pc = "probe" /\ pc' \in {"range", "rewind"}
        /\ UNCHANGED <<tally, cfg, readOf, dLast, source>>
        /\ lastBlock' = lastBlock \/ lastBlock' = StartBlock
    BY <1>7 DEF Probe
  <2>2. TallyBelow(lastBlock) /\ TallyBelow(StartBlock)
    BY <1>0, <2>1, NoFillBelowStart DEF TallyInv, Opening
  <2>3. TallyBelow(lastBlock')
    BY <2>1, <2>2
  <2> QED
    BY <2>1, <2>3 DEF TallyInv, TallyBelow
<1>8. CASE PersistRewind
  <2>1. /\ pc = "rewind" /\ pc' = "range" /\ dLast' = StartBlock /\ lastBlock' = StartBlock
        /\ tally' = tally /\ cfg' = cfg
    BY <1>8 DEF PersistRewind, HeadInv
  <2>2. \A c \in Chains, m \in Subject : tally[m] >= Cardinality(FillsBelow(cfg, c, m, StartBlock))
    <3> SUFFICES ASSUME NEW c \in Chains, NEW m \in Subject
                 PROVE  tally[m] >= Cardinality(FillsBelow(cfg, c, m, StartBlock))
      OBVIOUS
    <3>1. FillsBelow(cfg, c, m, StartBlock) = {}
      BY <1>0 DEF FillsBelow
    <3>2. Cardinality(FillsBelow(cfg, c, m, StartBlock)) = 0
      BY <3>1, FS_EmptySet
    <3> QED
      BY <3>2 DEF TypeOK
  <2> QED
    BY <2>1, <2>2 DEF TallyInv, TallyBelow
<1>9. ASSUME NEW h \in 0 .. height, GetLogs(h) PROVE TallyInv'
  <2>1. /\ pc = "range" /\ pc' = "work"
        /\ UNCHANGED <<tally, cfg, readOf, dLast, lastBlock, source>>
    BY <1>9 DEF GetLogs
  <2>2. TallyBelow(lastBlock)
    BY <2>1 DEF TallyInv, Opening
  <2>3. ASSUME NEW c \in Chains, headChain' = c, logChain' = c, NEW m \in Subject
        PROVE  FillsDone(cfg, c, m)' = FillsBelow(cfg, c, m, lastBlock)
    <3>1. ASSUME NEW i \in FillsBelow(cfg, c, m, toBlock'), i \notin todo'
          PROVE  i \in FillsBelow(cfg, c, m, lastBlock)
      <4>1. /\ i \in Positions(c) /\ LogAt(c, i).block \in (StartBlock + 1) .. toBlock'
            /\ LogAt(c, i).block \in Nat /\ lastBlock \in Nat
        BY <3>1, LogAtType DEF FillsBelow, TypeOK, Log
      <4>2. ~(LogAt(c, i).block \in (lastBlock + 1) .. toBlock')
        BY <1>9, <2>1, <2>3, <3>1, <4>1, NoneMissed
      <4>3. LogAt(c, i).block \in (StartBlock + 1) .. lastBlock
        BY <1>0, <4>1, <4>2
      <4> QED
        BY <3>1, <4>3 DEF FillsBelow
    <3> QED
      BY <2>1, <3>1 DEF FillsDone, FillsBelow
  <2>4. TallyBatch'
    BY <2>1, <2>2, <2>3 DEF TallyBatch, TallyBelow
  <2> QED
    BY <2>1, <2>4 DEF TallyInv, TallyBelow, Opening
<1>10. CASE Advance
  <2>1. /\ pc = "work" /\ pc' = "persist" /\ todo = {} /\ lastBlock' = toBlock
        /\ readOf' = readOf \cup {headChain, logChain}
        /\ UNCHANGED <<tally, cfg, dLast, source>>
    BY <1>10 DEF Advance
  <2>2. ASSUME NEW c \in Chains, readOf' \subseteq {c}, NEW m \in Subject
        PROVE  tally[m] >= Cardinality(FillsBelow(cfg, c, m, toBlock))
    <3>1. readOf \subseteq {c} /\ headChain = c /\ logChain = c
      BY <2>1, <2>2
    <3>2. tally[m] >= Cardinality(FillsDone(cfg, c, m))
      BY <2>1, <3>1 DEF TallyInv, TallyBatch
    <3>3. lastBlock \in Nat /\ toBlock \in Nat /\ lastBlock < toBlock
      BY <2>1 DEF TypeOK, RewindInv
    <3>4. FillsBelow(cfg, c, m, lastBlock) \subseteq FillsBelow(cfg, c, m, toBlock)
      BY <1>0, <3>3, LogAtType DEF FillsBelow, Log
    <3>5. FillsDone(cfg, c, m) = FillsBelow(cfg, c, m, toBlock)
      BY <2>1, <3>4 DEF FillsDone
    <3> QED
      BY <3>2, <3>5
  <2>3. TallyBelow(lastBlock)'
    BY <2>1, <2>2 DEF TallyBelow
  <2>4. source' = cfg' => TallyBelow(dLast)'
    BY <2>1 DEF TallyInv, TallyBelow
  <2> QED
    BY <2>1, <2>3, <2>4 DEF TallyInv
<1>11. CASE Persist
  <2>1. /\ pc = "persist" /\ pc' = "idle" /\ dLast' = lastBlock
        /\ UNCHANGED <<tally, cfg, readOf, lastBlock, source>>
    BY <1>11 DEF Persist, Return
  <2> QED
    BY <2>1 DEF TallyInv, TallyBelow, Opening
<1>12. CASE Crash
  <2>1. pc' = "down" /\ UNCHANGED <<tally, cfg, readOf, dLast, source>>
    BY <1>12 DEF Crash
  <2> QED
    BY <2>1 DEF TallyInv, TallyBelow, Opening
<1>13. CASE Mine \/ Relaunch \/ UNCHANGED vars
  <2>1. UNCHANGED <<pc, tally, cfg, readOf, dLast, lastBlock, source, headChain, logChain,
                    toBlock, todo>>
    BY <1>13 DEF Mine, Relaunch, vars
  <2> QED
    BY <2>1 DEF TallyInv, TallyBelow, TallyBatch, FillsDone
<1>15. ASSUME NEW i \in todo, Lost(i) PROVE TallyInv'
  BY <1>15, NobodyVouches DEF Lost, TallyInv, TallyBelow, TallyBatch
<1>14. ASSUME NEW i \in todo, TallyDone(i) PROVE TallyInv'
  <2>1. TallyDone(i)
    BY <1>14
  <2>2. /\ pc \in {"work", "rollup"} /\ pc' \in {"work", "rollup"}
        /\ UNCHANGED <<cfg, readOf, headChain, logChain, dLast, lastBlock, toBlock, source>>
    BY <2>1 DEF TallyDone
  <2>3. \A m \in Subject : tally'[m] >= tally[m] /\ tally[m] \in Nat /\ tally'[m] \in Nat
    <3> DEFINE s == LogAt(logChain, i).subject
    <3>1. tally' = tally \/ tally' = [tally EXCEPT ![s] = @ + 1]
      BY <2>1 DEF TallyDone
    <3>2. tally \in [Subject -> Nat]
      BY DEF TypeOK
    <3> HIDE DEF s
    <3> QED
      BY <3>1, <3>2
  <2>4. ASSUME NEW n, TallyBelow(n) PROVE TallyBelow(n)'
    <3> SUFFICES ASSUME NEW c \in Chains, readOf \subseteq {c}, NEW m \in Subject
                 PROVE  tally'[m] >= Cardinality(FillsBelow(cfg, c, m, n))
      BY <2>2 DEF TallyBelow
    <3> DEFINE d == Cardinality(FillsBelow(cfg, c, m, n))
    <3>1. tally[m] >= d
      BY <2>4 DEF TallyBelow
    <3>2. FillsBelow(cfg, c, m, n) \in SUBSET Positions(c)
      BY DEF FillsBelow
    <3>3. d \in Nat
      BY <3>2, FillsFinite
    <3>4. tally'[m] >= d
      <4> HIDE DEF d
      <4> QED
        BY <2>3, <3>1, <3>3
    <3> QED
      BY <3>4
  <2>5. (source = cfg => TallyBelow(dLast)') /\ TallyBelow(lastBlock)'
    BY <2>2, <2>4 DEF TallyInv, TallyBelow, Opening
  <2>6. TallyBatch'
    BY <2>1, <2>2, TallyKept DEF TallyInv, TallyBatch
  <2> QED
    BY <2>2, <2>5, <2>6 DEF TallyInv
<1>16. CASE ProcessLog
  BY <1>14, <1>15, <1>16, TallyEffect
<1> QED
  BY <1>1, <1>2, <1>3, <1>4, <1>5, <1>6, <1>7, <1>8, <1>9, <1>10, <1>11, <1>12, <1>13,
     <1>16 DEF Next, Startup, Poll

\* writeFill and handleInitializeV4: whatever crashes between the Fill and the
\* Market write, abandoned batches, relaunches and address-set changes occur, a
\* market's tradeCount is at least the number of its fills below the cursor, for
\* every history, as long as no write below the cursor was refused, the endpoint's
\* nodes agree, the DELETEs succeed and no deployment is rolled back.
THEOREM TalliesKeepUp == Behaved => (Spec => []TallyCovers)
<1> SUFFICES ASSUME Behaved PROVE Spec => []TallyCovers
  OBVIOUS
<1>1. Init /\ TypeOK => TallyInv
  <2> SUFFICES ASSUME Init, TypeOK PROVE TallyInv
    OBVIOUS
  <2>1. source # cfg /\ pc = "down"
    BY DEF Init, NoSource
  <2> QED
    BY <2>1 DEF TallyInv, Opening
<1>2. WholeInv /\ TallyInv /\ [Next]_vars => TallyInv'
  BY TallyStep
<1>3. TallyInv => TallyCovers
  BY DEF TallyInv, TallyBelow, TallyCovers
<1> QED
  BY <1>1, <1>2, <1>3, TypeCorrect, WholeInvariant, PTL DEF Spec

-----------------------------------------------------------------------------
(***************************************************************************)
(* Without faults, and with relaunches only between polls and onto a chain *)
(* far below the cursor, no log is read twice and tradeCount is exactly    *)
(* the number of Fill rows.                                                *)
(***************************************************************************)
\* The store is opened once, under the address set it adopts.
OpenedOnce ==
  /\ pc # "drop"
  /\ pc \in {"down", "open"} => source = NoSource
  /\ pc \in Opening => entities = {} /\ genesis = NoHash

\* A poll sees one chain, and nothing of a chain is read before the rewind to it.
OneChain ==
  /\ height <= MaxHeight[chain]
  /\ pc \in Polling => headChain = chain
  /\ pc \in Working => logChain = chain
  /\ \A e \in entities : e[1] <= chain
  /\ genesis \notin {NoHash, chain} =>
       /\ MaxHeight[chain] + ReorgDepth < lastBlock
       /\ \A e \in entities : e[1] < chain
       /\ pc \notin Working

\* A row of the chain running now is of a block below the cursor or of a log of the
\* batch that is handled, or half handled.
ReadOnce ==
  \A j \in Positions(chain) : <<chain, j>> \in entities =>
    \/ LogAt(chain, j).block <= lastBlock
    \/ /\ pc \in {"work", "rollup"}
       /\ LogAt(chain, j).block <= toBlock
       /\ j \notin todo \/ (pc = "rollup" /\ Front(j))

FillRows(m) ==
  {e \in entities : LogAt(e[1], e[2]).kind = "DEXFill" /\ LogAt(e[1], e[2]).subject = m}

\* Between writeFill's two writes the market of the fill is one behind its rows.
CountInv ==
  /\ IsFiniteSet(entities)
  /\ pc # "rollup" => \A m \in Subject : tally[m] = Cardinality(FillRows(m))
  /\ pc = "rollup" => \A i \in todo : Front(i) =>
       \A m \in Subject :
         tally[m] + (IF LogAt(logChain, i).subject = m THEN 1 ELSE 0) = Cardinality(FillRows(m))

OnceInv == OpenedOnce /\ OneChain /\ ReadOnce /\ CountInv

\* What a step of ProcessLog does to the rows, the tallies and the batch.
OnceDone(i) ==
  LET l == LogAt(logChain, i) IN
    /\ Front(i)
    /\ UNCHANGED <<chain, height, genesis, headChain, logChain, lastBlock, toBlock, source>>
    /\ \/ /\ pc = "work" /\ pc' = "work" /\ todo' = todo \ {i}
          /\ entities' = entities /\ tally' = tally
       \/ /\ pc = "work" /\ pc' = "work" /\ todo' = todo \ {i}
          /\ entities' = entities \cup {<<logChain, i>>} /\ tally' = tally
          /\ l.kind # "DEXFill"
       \/ /\ pc = "work" /\ pc' = "rollup" /\ todo' = todo
          /\ entities' = entities \cup {<<logChain, i>>} /\ tally' = tally
          /\ l.kind = "DEXFill"
       \/ /\ pc = "rollup" /\ pc' = "work" /\ todo' = todo \ {i}
          /\ entities' = entities /\ tally' = [tally EXCEPT ![l.subject] = @ + 1]

\* Each handler writes one row of its log, or none.
LEMMA OnceEffect ==
  ASSUME MaxFaults = 0, TypeOK, ProcessLog
  PROVE  \E i \in todo : OnceDone(i)
<1> USE DEF procVars, localVars, chainVars
<1>1. PICK i \in todo :
        \/ HandleCreated(i) \/ HandleInitializeV4(i) \/ HandleSwap(i) \/ HandleSwapV4(i)
        \/ IgnoreFill(i) \/ WriteFill(i) \/ RollUpFill(i)
        \/ HandleFrozen(i) \/ HandleAction(i) \/ HandleInert(i)
  <2>1. ~(faults < MaxFaults)
    BY DEF TypeOK
  <2> QED
    BY <2>1 DEF ProcessLog, LoseWrite, LoseHalfFrozen, LoseHalfFill, Lose
<1>2. CASE HandleCreated(i) \/ HandleInitializeV4(i) \/ HandleSwap(i) \/ HandleSwapV4(i)
  BY <1>2 DEF OnceDone, HandleCreated, HandleInitializeV4, HandleSwap, HandleSwapV4, Handle, Take, Lose
<1>3. CASE IgnoreFill(i) \/ HandleInert(i)
  BY <1>3 DEF OnceDone, IgnoreFill, HandleInert, Handle, Take, Lose
<1>4. CASE HandleAction(i) \/ HandleFrozen(i)
  BY <1>4 DEF OnceDone, HandleAction, HandleFrozen, Handle, Take, Lose
<1>5. CASE WriteFill(i)
  BY <1>5 DEF OnceDone, WriteFill
<1>6. CASE RollUpFill(i)
  BY <1>6 DEF OnceDone, RollUpFill
<1> QED
  BY <1>1, <1>2, <1>3, <1>4, <1>5, <1>6

\* The log in hand has no row yet when its handler starts.
LEMMA NotYetRead ==
  ASSUME TypeOK, HeadInv, OnceInv, pc = "work", NEW i \in todo
  PROVE  logChain = chain /\ <<logChain, i>> \notin entities
<1>1. logChain = chain
  BY DEF OnceInv, OneChain, Working
<1>2. /\ i \in Positions(logChain) /\ LogAt(logChain, i).block \in Nat
      /\ LogAt(logChain, i).block > lastBlock /\ lastBlock \in Nat
  BY LogInHand DEF HeadInv, TypeOK
<1> QED
  BY <1>1, <1>2 DEF OnceInv, ReadOnce

\* A handler's step keeps the rows within the handled part of the chain.
LEMMA ReadOnceKept ==
  ASSUME TypeOK, HeadInv, OnceInv, NEW i \in todo, OnceDone(i)
  PROVE  ReadOnce'
<1>1. /\ pc \in {"work", "rollup"} /\ pc' \in {"work", "rollup"} /\ Front(i)
      /\ UNCHANGED <<chain, lastBlock, toBlock>>
  BY DEF OnceDone
<1>2. logChain = chain
  BY <1>1 DEF OnceInv, OneChain, Working
<1> SUFFICES ASSUME NEW j \in Positions(chain), <<chain, j>> \in entities',
                    ~(LogAt(chain, j).block <= lastBlock)
             PROVE  /\ LogAt(chain, j).block <= toBlock
                    /\ j \notin todo' \/ (pc' = "rollup" /\ Front(j)')
  BY <1>1 DEF ReadOnce, LogAt, Positions
<1>3. CASE <<chain, j>> \in entities
  <2>1. /\ LogAt(chain, j).block <= toBlock
        /\ j \notin todo \/ (pc = "rollup" /\ Front(j))
    BY <1>3 DEF OnceInv, ReadOnce
  <2>2. CASE j \notin todo
    BY <2>1, <2>2 DEF OnceDone
  <2>3. CASE pc = "rollup" /\ Front(j)
    <3>1. j \in Nat /\ i \in Nat
      BY <1>1, <2>3, LogInHand DEF Front
    <3>2. j = i
      BY <1>1, <2>3, <3>1 DEF Front
    <3> QED
      BY <2>1, <2>3, <3>2 DEF OnceDone
  <2> QED
    BY <2>1, <2>2, <2>3
<1>4. CASE <<chain, j>> \notin entities
  <2>1. j = i
    BY <1>2, <1>4 DEF OnceDone
  <2>2. LogAt(chain, i).block <= toBlock
    BY <1>1, <1>2, LogInHand DEF HeadInv, TypeOK
  <2>3. i \notin todo' \/ (pc' = "rollup" /\ todo' = todo)
    BY <1>1, <1>4 DEF OnceDone
  <2> QED
    BY <1>1, <2>1, <2>2, <2>3 DEF Front
<1> QED
  BY <1>3, <1>4

\* A handler's step counts the row it writes.
LEMMA CountKept ==
  ASSUME TypeOK, HeadInv, OnceInv, NEW i \in todo, OnceDone(i)
  PROVE  CountInv'
<1> DEFINE l == LogAt(logChain, i)
<1>1. /\ pc \in {"work", "rollup"} /\ Front(i) /\ logChain' = logChain
      /\ logChain \in Chains /\ i \in Nat /\ l.subject \in Subject
  BY LogInHand DEF OnceDone
<1>2. IsFiniteSet(entities)
  BY DEF OnceInv, CountInv
<1>3. \A m \in Subject : IsFiniteSet(FillRows(m)) /\ Cardinality(FillRows(m)) \in Nat
  <2> SUFFICES ASSUME NEW m \in Subject
               PROVE  IsFiniteSet(FillRows(m)) /\ Cardinality(FillRows(m)) \in Nat
    OBVIOUS
  <2>1. FillRows(m) \in SUBSET entities
    BY DEF FillRows
  <2>2. IsFiniteSet(FillRows(m))
    BY <1>2, <2>1, FS_Subset
  <2> QED
    BY <2>2, FS_CardinalityType
<1>4. IsFiniteSet(entities')
  <2>1. IsFiniteSet(entities \cup {<<logChain, i>>})
    BY <1>2, FS_AddElement
  <2> QED
    BY <1>2, <2>1 DEF OnceDone
<1>5. CASE entities' = entities /\ pc = "work" /\ pc' = "work"
  <2>1. tally' = tally
    BY <1>5 DEF OnceDone
  <2> QED
    BY <1>4, <1>5, <2>1 DEF OnceInv, CountInv, FillRows, LogAt
<1>6. CASE entities' = entities \cup {<<logChain, i>>} /\ l.kind # "DEXFill" /\ pc = "work"
  <2>1. pc' = "work" /\ tally' = tally
    BY <1>6 DEF OnceDone
  <2>2. \A m \in Subject : FillRows(m)' = FillRows(m)
    BY <1>6 DEF FillRows, LogAt
  <2> QED
    BY <1>4, <1>6, <2>1, <2>2 DEF OnceInv, CountInv
<1>7. CASE entities' = entities \cup {<<logChain, i>>} /\ l.kind = "DEXFill" /\ pc = "work" /\ pc' = "rollup"
  <2>1. todo' = todo /\ tally' = tally
    BY <1>7 DEF OnceDone
  <2>2. <<logChain, i>> \notin entities
    BY <1>7, NotYetRead
  <2>3. ASSUME NEW m \in Subject
        PROVE  Cardinality(FillRows(m)') = tally[m] + (IF l.subject = m THEN 1 ELSE 0)
    <3>1. tally[m] = Cardinality(FillRows(m)) /\ tally[m] \in Nat
      BY <1>7 DEF OnceInv, CountInv, TypeOK
    <3>2. CASE l.subject = m
      <4>1. FillRows(m)' = FillRows(m) \cup {<<logChain, i>>}
        BY <1>7, <3>2 DEF FillRows, LogAt
      <4>2. <<logChain, i>> \notin FillRows(m)
        BY <2>2 DEF FillRows
      <4>3. Cardinality(FillRows(m) \cup {<<logChain, i>>}) = Cardinality(FillRows(m)) + 1
        BY <1>3, <4>2, FS_AddElement
      <4> QED
        BY <3>1, <3>2, <4>1, <4>3
    <3>3. CASE l.subject # m
      <4>1. FillRows(m)' = FillRows(m)
        BY <1>7, <3>3 DEF FillRows, LogAt
      <4> QED
        BY <3>1, <3>3, <4>1
    <3> QED
      BY <3>2, <3>3
  <2>4. ASSUME NEW j \in todo', Front(j)' PROVE j = i
    <3>1. j \in Nat /\ Front(j)
      BY <1>1, <2>1, <2>4, LogInHand DEF Front
    <3> QED
      BY <1>1, <3>1 DEF Front
  <2>5. \A j \in todo' : Front(j)' => \A m \in Subject :
          tally'[m] + (IF LogAt(logChain', j).subject = m THEN 1 ELSE 0) = Cardinality(FillRows(m)')
    BY <1>1, <2>1, <2>3, <2>4
  <2>6. \A j : LogAt(logChain, j)' = LogAt(logChain', j)
    BY DEF LogAt
  <2> QED
    BY <1>4, <1>7, <2>5, <2>6 DEF CountInv
<1>8. CASE pc = "rollup"
  <2>1. /\ pc' = "work" /\ entities' = entities
        /\ tally' = [tally EXCEPT ![l.subject] = tally[l.subject] + 1]
    BY <1>8 DEF OnceDone
  <2>2. ASSUME NEW m \in Subject
        PROVE  tally'[m] = Cardinality(FillRows(m)')
    <3>1. FillRows(m)' = FillRows(m)
      BY <2>1 DEF FillRows, LogAt
    <3>2. tally[m] + (IF l.subject = m THEN 1 ELSE 0) = Cardinality(FillRows(m))
      BY <1>1, <1>8 DEF OnceInv, CountInv
    <3>3. tally \in [Subject -> Nat]
      BY DEF TypeOK
    <3>4. tally'[m] = tally[m] + (IF l.subject = m THEN 1 ELSE 0)
      <4> HIDE DEF l
      <4> QED
        BY <2>1, <3>3
    <3> QED
      BY <3>1, <3>2, <3>4
  <2> QED
    BY <1>4, <2>1, <2>2 DEF CountInv
<1> QED
  BY <1>1, <1>5, <1>6, <1>7, <1>8 DEF OnceDone

\* A step that leaves the rows, the tallies and the chain alone reads nothing twice.
LEMMA OnceQuiet ==
  ASSUME OnceInv, pc # "rollup", pc' # "rollup",
         UNCHANGED <<chain, height, entities, tally>>,
         UNCHANGED lastBlock \/ entities = {}
  PROVE  /\ CountInv'
         /\ (pc \notin {"work"} => ReadOnce')
         /\ height' <= MaxHeight[chain]' /\ \A e \in entities' : e[1] <= chain'
<1>1. CountInv'
  BY DEF OnceInv, CountInv, FillRows, LogAt
<1>2. pc \notin {"work"} => ReadOnce'
  BY DEF OnceInv, ReadOnce, LogAt, Positions
<1> QED
  BY <1>1, <1>2 DEF OnceInv, OneChain

\* Every step without a fault reads only logs that have no row.
LEMMA OnceStep ==
  ASSUME MaxFaults = 0, TypeOK, HeadInv, RewindInv, OnceInv, [Next /\ LongLived]_vars
  PROVE  OnceInv'
<1> USE DEF procVars, localVars, diskVars, chainVars
<1>0. /\ chain \in Chains /\ chain \in Nat /\ lastBlock \in Nat /\ height \in Nat
      /\ latest \in Nat /\ MaxHeight[chain] \in Nat /\ ReorgDepth \in Nat
  BY PollerConstants DEF TypeOK, Chains
<1>1. CASE (\E k \in Configs : Start(k)) \/ Open \/ Load
  <2>1. /\ pc' \in {"open", "load", "idle"} /\ pc \in {"down", "open", "load"}
        /\ UNCHANGED <<chain, height, entities, tally, genesis>>
        /\ pc' # "idle" => UNCHANGED lastBlock
        /\ pc' = "open" => source' = source /\ pc = "down"
    BY <1>1 DEF Start, Open, TakeOver, Load, OnceInv, OpenedOnce, NoSource, TypeOK
  <2>2. entities = {}
    BY <2>1 DEF OnceInv, OpenedOnce, Opening
  <2>3. CountInv' /\ ReadOnce' /\ height' <= MaxHeight[chain]' /\ \A e \in entities' : e[1] <= chain'
    BY <2>1, <2>2, OnceQuiet
  <2>4. OpenedOnce'
    BY <2>1, <2>2 DEF OnceInv, OpenedOnce, Opening
  <2>5. OneChain'
    <3>1. genesis \in {NoHash, chain}
      BY <2>1 DEF OnceInv, OpenedOnce, Opening
    <3> QED
      BY <2>1, <2>3, <3>1 DEF OneChain, Polling, Working
  <2> QED
    BY <2>3, <2>4, <2>5 DEF OnceInv
<1>2. CASE DropTable \/ Adopt
  BY <1>2 DEF DropTable, Adopt, OnceInv, OpenedOnce
<1>3. CASE Panic \/ Crash
  BY <1>3 DEF Panic, Crash, TypeOK
<1>4. CASE \/ \E h \in 0 .. height : ReadHead(h)
           \/ EnsureGenesisHash \/ CountLowHead \/ ProbeFails \/ PersistRewind
           \/ NothingNew \/ FetchFails \/ Persist
  <2>1. /\ pc \in {"idle", "baseline", "reset", "probe", "rewind", "range", "persist"}
        /\ pc' \in {"idle", "baseline", "reset", "probe", "range"}
        /\ UNCHANGED <<chain, height, entities, tally, lastBlock>>
        /\ genesis' = genesis \/ genesis' = chain
        /\ \/ headChain' = chain
           \/ pc # "idle" /\ headChain' = headChain
           \/ pc' = "idle"
    BY <1>4 DEF ReadHead, EnsureGenesisHash, CountLowHead, ProbeFails, PersistRewind, NothingNew,
       FetchFails, Persist, Return
  <2>2. CountInv' /\ ReadOnce' /\ height' <= MaxHeight[chain]' /\ \A e \in entities' : e[1] <= chain'
    BY <2>1, OnceQuiet
  <2>3. OpenedOnce'
    BY <2>1 DEF OpenedOnce, Opening
  <2>4. OneChain'
    BY <2>1, <2>2 DEF OnceInv, OneChain, Polling, Working
  <2> QED
    BY <2>2, <2>3, <2>4 DEF OnceInv
<1>5. CASE Probe
  <2>1. /\ pc = "probe" /\ pc' \in {"range", "rewind"} /\ genesis' = chain
        /\ UNCHANGED <<chain, height, entities, tally, headChain>>
        /\ UNCHANGED lastBlock \/ genesis \notin {NoHash, chain}
    BY <1>5 DEF Probe
  <2>2. CountInv'
    BY <2>1 DEF OnceInv, CountInv, FillRows, LogAt
  <2>3. ReadOnce'
    <3>1. CASE UNCHANGED lastBlock
      BY <2>1, <3>1, OnceQuiet
    <3>2. CASE genesis \notin {NoHash, chain}
      <4>1. \A e \in entities : e[1] < chain
        BY <3>2 DEF OnceInv, OneChain
      <4>2. \A j : <<chain, j>> \notin entities
        BY <1>0, <4>1
      <4> QED
        BY <2>1, <4>2 DEF ReadOnce
    <3> QED
      BY <2>1, <3>1, <3>2
  <2>4. OneChain'
    BY <2>1 DEF OnceInv, OneChain, Polling, Working
  <2> QED
    BY <2>1, <2>2, <2>3, <2>4 DEF OnceInv, OpenedOnce, Opening
<1>6. ASSUME NEW h \in 0 .. height, GetLogs(h) PROVE OnceInv'
  <2>1. /\ pc = "range" /\ pc' = "work" /\ latest > lastBlock /\ logChain' = chain
        /\ UNCHANGED <<chain, height, entities, tally, lastBlock, genesis, headChain>>
    BY <1>6 DEF GetLogs
  <2>2. CountInv' /\ ReadOnce' /\ height' <= MaxHeight[chain]' /\ \A e \in entities' : e[1] <= chain'
    BY <2>1, OnceQuiet
  <2>3. headChain = chain /\ latest <= height
    BY <2>1 DEF OnceInv, OneChain, HeadInv, Polling
  <2>4. genesis \in {NoHash, chain}
    BY <1>0, <2>1, <2>3 DEF OnceInv, OneChain
  <2>5. OneChain'
    BY <2>1, <2>2, <2>3, <2>4 DEF OneChain, Polling, Working
  <2> QED
    BY <2>1, <2>2, <2>5 DEF OnceInv, OpenedOnce, Opening
<1>7. CASE Advance
  <2>1. /\ pc = "work" /\ pc' = "persist" /\ lastBlock' = toBlock
        /\ UNCHANGED <<chain, height, entities, tally, genesis, headChain, logChain>>
    BY <1>7 DEF Advance
  <2>2. CountInv'
    BY <2>1 DEF OnceInv, CountInv, FillRows, LogAt
  <2>3. toBlock > lastBlock /\ toBlock \in Nat
    BY <2>1 DEF RewindInv, TypeOK
  <2>4. ReadOnce'
    <3> SUFFICES ASSUME NEW j \in Positions(chain), <<chain, j>> \in entities
                 PROVE  LogAt(chain, j).block <= toBlock
      BY <2>1 DEF ReadOnce, LogAt
    <3>1. LogAt(chain, j).block <= lastBlock \/ LogAt(chain, j).block <= toBlock
      BY DEF OnceInv, ReadOnce
    <3>2. LogAt(chain, j).block \in Nat
      BY <1>0, LogAtType DEF Log
    <3> QED
      BY <1>0, <2>3, <3>1, <3>2
  <2>5. OneChain'
    BY <2>1 DEF OnceInv, OneChain, Polling, Working
  <2> QED
    BY <2>1, <2>2, <2>4, <2>5 DEF OnceInv, OpenedOnce, Opening
<1>8. CASE Mine \/ UNCHANGED vars
  <2>1. UNCHANGED <<pc, chain, entities, tally, lastBlock, toBlock, todo, genesis, headChain,
                    logChain, source>>
    BY <1>8 DEF Mine, vars
  <2>2. height' <= MaxHeight[chain]
    BY <1>0, <1>8 DEF Mine, vars, OnceInv, OneChain
  <2>3. CountInv'
    BY <2>1 DEF OnceInv, CountInv, FillRows, LogAt, Front
  <2>4. ReadOnce'
    BY <2>1 DEF OnceInv, ReadOnce, LogAt, Front
  <2>5. OneChain'
    BY <2>1, <2>2 DEF OnceInv, OneChain, Polling, Working
  <2> QED
    BY <2>1, <2>3, <2>4, <2>5 DEF OnceInv, OpenedOnce
<1>9. CASE Relaunch /\ LongLived
  <2>1. /\ pc = "idle" /\ genesis = chain /\ MaxHeight[chain'] + ReorgDepth < lastBlock
        /\ chain' = chain + 1 /\ height' = 0 /\ chain < NChains
        /\ UNCHANGED <<pc, entities, tally, lastBlock, genesis, source>>
    BY <1>0, <1>9 DEF Relaunch, LongLived
  <2>2. MaxHeight[chain'] \in Nat
    BY <1>0, <2>1, PollerConstants DEF Chains
  <2>3. \A e \in entities : e[1] <= chain /\ e[1] \in Nat
    <3>1. \A e \in LogIds : e[1] \in Nat
      BY PollerConstants DEF LogIds, Chains
    <3> QED
      BY <3>1 DEF OnceInv, OneChain, TypeOK
  <2>4. \A e \in entities' : e[1] < chain'
    BY <1>0, <2>1, <2>3
  <2>5. CountInv'
    BY <2>1 DEF OnceInv, CountInv, FillRows, LogAt
  <2>6. ReadOnce'
    <3>1. \A j : <<chain', j>> \notin entities'
      BY <1>0, <2>1, <2>4
    <3> QED
      BY <3>1 DEF ReadOnce
  <2>7. OneChain'
    <3>1. \A e \in entities' : e[1] <= chain'
      BY <1>0, <2>1, <2>3
    <3> QED
      BY <2>1, <2>2, <2>4, <3>1 DEF OneChain, Polling, Working
  <2> QED
    BY <2>1, <2>5, <2>6, <2>7 DEF OnceInv, OpenedOnce, Opening
<1>10. CASE ProcessLog
  <2>1. PICK i \in todo : OnceDone(i)
    BY <1>10, OnceEffect
  <2>2. /\ pc \in {"work", "rollup"} /\ pc' \in {"work", "rollup"}
        /\ UNCHANGED <<chain, height, genesis, headChain, logChain, lastBlock>>
        /\ entities' \in {entities, entities \cup {<<logChain, i>>}}
    BY <2>1 DEF OnceDone
  <2>3. logChain = chain /\ genesis \in {NoHash, chain}
    BY <2>2 DEF OnceInv, OneChain, Working
  <2>4. \A e \in entities' : e[1] <= chain
    BY <1>0, <2>2, <2>3 DEF OnceInv, OneChain
  <2>5. OneChain'
    BY <2>2, <2>3, <2>4 DEF OnceInv, OneChain, Polling, Working
  <2> QED
    BY <2>1, <2>2, <2>5, ReadOnceKept, CountKept DEF OnceInv, OpenedOnce, Opening
<1> QED
  BY <1>1, <1>2, <1>3, <1>4, <1>5, <1>6, <1>7, <1>8, <1>9, <1>10 DEF Next, Startup, Poll

\* writeFill: in a process that runs without a crash or a panic, over a chain that
\* is replaced only between two polls and by one far below the cursor, no log is
\* handled twice, so a market's tradeCount is exactly the number of its Fill rows
\* whenever the poller is not between the two writes, in a store that was new and
\* of which no statement fails.  Lagging reads and failed probes do not disturb it.
THEOREM TalliesExact == (MaxFaults = 0 /\ OldStores = {}) => (LiveSpec => []TallyExact)
<1> SUFFICES ASSUME MaxFaults = 0, OldStores = {} PROVE LiveSpec => []TallyExact
  OBVIOUS
<1>1. Init => OnceInv
  <2> SUFFICES ASSUME Init PROVE OnceInv
    OBVIOUS
  <2>1. /\ pc = "down" /\ source = NoSource /\ entities = {} /\ genesis = NoHash /\ chain = 1
        /\ height = 0 /\ tally = [s \in Subject |-> 0]
    BY DEF Init, EmptyStore
  <2>2. MaxHeight[1] \in Nat
    BY PollerConstants DEF Chains
  <2>3. \A m \in Subject : FillRows(m) = {}
    BY <2>1 DEF FillRows
  <2>4. IsFiniteSet(entities) /\ \A m \in Subject : Cardinality(FillRows(m)) = 0
    BY <2>1, <2>3, FS_EmptySet
  <2>5. CountInv
    BY <2>1, <2>4 DEF CountInv
  <2>6. OpenedOnce /\ ReadOnce
    BY <2>1 DEF OpenedOnce, ReadOnce, Opening
  <2>7. OneChain
    BY <2>1, <2>2 DEF OneChain, Polling, Working
  <2> QED
    BY <2>5, <2>6, <2>7 DEF OnceInv
<1>2. Init => HeadInv
  BY PollerConstants DEF Init, HeadInv, Polling, Working
<1>3. TypeOK /\ HeadInv /\ [Next]_vars => HeadInv'
  BY HeadStep
<1>4. TypeOK /\ HeadInv /\ RewindInv /\ OnceInv /\ [Next /\ LongLived]_vars => OnceInv'
  BY OnceStep
<1>5. [Next /\ LongLived]_vars => [Next]_vars
  OBVIOUS
<1>6. OnceInv => TallyExact
  BY DEF OnceInv, CountInv, TallyExact, FillRows
<1> QED
  BY <1>1, <1>2, <1>3, <1>4, <1>5, <1>6, RewindInvariant, PTL DEF Spec, LiveSpec

-----------------------------------------------------------------------------
(***************************************************************************)
(* The poller implements a mirror.  Beside what WholeInv says of the rows, *)
(* the stored cursor is behind the one in memory unless a rewind is half   *)
(* done, and a store nothing was read into has it at the start.            *)
(***************************************************************************)
CursorInv ==
  /\ pc \notin Opening \cup {"rewind"} => dLast <= lastBlock
  /\ readOf = {} => dLast <= StartBlock
  /\ pc = "persist" => readOf # {}

\* A step that leaves the cursors alone and ends no batch keeps it.
LEMMA CursorQuiet ==
  ASSUME CursorInv, pc' # "persist", UNCHANGED <<dLast, lastBlock, readOf>>,
         pc \in Opening \cup {"rewind"} => pc' \in Opening \cup {"rewind"}
  PROVE  CursorInv'
  BY DEF CursorInv

\* Every step keeps the stored cursor behind the one in memory.
LEMMA CursorStep ==
  ASSUME TypeOK, RewindInv, HeadInv, CursorInv, [Next]_vars
  PROVE  CursorInv'
<1> USE DEF Opening
<1>0. dLast \in Nat /\ lastBlock \in Nat /\ StartBlock \in Nat /\ toBlock \in Nat
  BY PollerConstants DEF TypeOK
<1>1. ASSUME NEW k \in Configs, Start(k) PROVE CursorInv'
  BY <1>1, CursorQuiet DEF Start, diskVars
<1>2. CASE Open \/ Adopt
  <2>1. /\ pc \in {"open", "drop"} /\ pc' \in {"load", "drop"}
        /\ UNCHANGED <<dLast, lastBlock>> /\ readOf \subseteq readOf'
    BY <1>2 DEF Open, TakeOver, Adopt, procVars
  <2> QED
    BY <2>1 DEF CursorInv
<1>3. CASE DropTable
  <2>1. /\ pc = "drop" /\ pc' = "drop"
        /\ (dLast' = 0 /\ readOf' = {}) \/ UNCHANGED <<dLast, readOf>>
    BY <1>3 DEF DropTable
  <2> QED
    BY <1>0, <2>1 DEF CursorInv
<1>4. CASE Load
  <2>1. /\ pc = "load" /\ pc' = "idle" /\ UNCHANGED <<dLast, readOf>>
        /\ lastBlock' = IF dLast < StartBlock THEN StartBlock ELSE dLast
    BY <1>4 DEF Load, diskVars
  <2> QED
    BY <1>0, <2>1 DEF CursorInv
<1>5. ASSUME NEW h \in 0 .. height, ReadHead(h) PROVE CursorInv'
  BY <1>5, CursorQuiet DEF ReadHead, diskVars, procVars
<1>6. CASE EnsureGenesisHash \/ CountLowHead \/ ProbeFails
  <2>1. /\ pc \in {"baseline", "reset", "probe"} /\ pc' \in {"reset", "range", "probe"}
        /\ UNCHANGED <<dLast, lastBlock, readOf>>
    BY <1>6 DEF EnsureGenesisHash, CountLowHead, ProbeFails, diskVars, procVars
  <2> QED
    BY <2>1, CursorQuiet
<1>7. CASE Probe
  <2>1. /\ pc = "probe" /\ UNCHANGED <<dLast, readOf>>
        /\ (pc' = "range" /\ lastBlock' = lastBlock) \/ pc' = "rewind"
    BY <1>7 DEF Probe, diskVars
  <2> QED
    BY <2>1 DEF CursorInv
<1>8. CASE PersistRewind
  <2>1. pc = "rewind" /\ pc' = "range" /\ dLast' = StartBlock /\ lastBlock' = lastBlock
    BY <1>8 DEF PersistRewind, procVars
  <2>2. lastBlock = StartBlock
    BY <2>1 DEF HeadInv
  <2> QED
    BY <1>0, <2>1, <2>2 DEF CursorInv
<1>9. CASE NothingNew \/ FetchFails \/ Panic
  <2>1. /\ pc \in {"range", "work", "rollup"} /\ pc' = "idle"
        /\ UNCHANGED <<dLast, lastBlock, readOf>>
    BY <1>9 DEF NothingNew, FetchFails, Panic, Return, diskVars, procVars
  <2> QED
    BY <2>1, CursorQuiet
<1>10. ASSUME NEW h \in 0 .. height, GetLogs(h) PROVE CursorInv'
  BY <1>10, CursorQuiet DEF GetLogs, diskVars, procVars
<1>11. CASE Advance
  <2>1. /\ pc = "work" /\ pc' = "persist" /\ lastBlock' = toBlock /\ dLast' = dLast
        /\ headChain \in readOf' /\ readOf' # {}
    BY <1>11 DEF Advance, diskVars
  <2>2. toBlock > lastBlock /\ dLast <= lastBlock
    BY <2>1 DEF RewindInv, CursorInv
  <2> QED
    BY <1>0, <2>1, <2>2 DEF CursorInv
<1>12. CASE Persist
  <2>1. pc = "persist" /\ pc' = "idle" /\ dLast' = lastBlock /\ UNCHANGED <<lastBlock, readOf>>
    BY <1>12 DEF Persist, Return, procVars
  <2> QED
    BY <1>0, <2>1 DEF CursorInv
<1>13. CASE Crash
  <2>1. pc' = "down" /\ UNCHANGED <<dLast, readOf>>
    BY <1>13 DEF Crash, diskVars
  <2> QED
    BY <2>1 DEF CursorInv
<1>14. CASE Mine \/ Relaunch \/ UNCHANGED vars
  <2>1. UNCHANGED <<pc, dLast, lastBlock, readOf>>
    BY <1>14 DEF Mine, Relaunch, vars, diskVars, procVars
  <2> QED
    BY <2>1 DEF CursorInv
<1>15. CASE ProcessLog
  <2>1. /\ pc \in {"work", "rollup"} /\ pc' \in {"work", "rollup"}
        /\ UNCHANGED <<dLast, lastBlock>> /\ readOf \subseteq readOf'
    BY <1>15 DEF ProcessLog, HandleCreated, HandleInitializeV4, HandleSwap, HandleSwapV4,
       IgnoreFill, WriteFill, RollUpFill, HandleFrozen, HandleAction, HandleInert, LoseWrite, LoseHalfFrozen, LoseHalfFill,
       Handle, Take, Lose, procVars
  <2> QED
    BY <2>1 DEF CursorInv
<1> QED
  BY <1>1, <1>2, <1>3, <1>4, <1>5, <1>6, <1>7, <1>8, <1>9, <1>10, <1>11, <1>12, <1>13,
     <1>14, <1>15 DEF Next, Startup, Poll

\* Blocks come from chains that were there: one to come was never read.
SeenInv == logChain <= chain /\ \A c \in readOf : c <= chain

\* A step reads from the running chain, or from none.
LEMMA SeenStep ==
  ASSUME TypeOK, HeadInv, SeenInv, [Next]_vars
  PROVE  SeenInv'
<1>0. chain \in Nat /\ logChain \in Nat /\ headChain \in Nat /\ readOf \subseteq Nat /\ headChain <= chain
  BY PollerConstants DEF TypeOK, HeadInv, Chains, NoChain
<1>1. CASE Startup
  <2>1. UNCHANGED <<chain, logChain>> /\ readOf' \subseteq readOf \cup {0}
    BY <1>1 DEF Startup, Start, Open, TakeOver, DropTable, Adopt, Load, chainVars, localVars, NoChain
  <2> QED
    BY <1>0, <2>1 DEF SeenInv
<1>2. CASE \/ EnsureGenesisHash \/ CountLowHead \/ ProbeFails \/ Probe \/ PersistRewind
           \/ \E h \in 0 .. height : ReadHead(h)
  <2>1. UNCHANGED <<chain, logChain>> /\ (readOf' = readOf \/ readOf' = {})
    BY <1>2 DEF EnsureGenesisHash, CountLowHead, ProbeFails, Probe, PersistRewind, ReadHead,
       chainVars, localVars
  <2> QED
    BY <2>1 DEF SeenInv
<1>3. CASE NothingNew \/ FetchFails \/ Panic \/ Persist \/ Crash
  <2>1. UNCHANGED <<chain, readOf>> /\ logChain' = 0
    BY <1>3 DEF NothingNew, FetchFails, Panic, Persist, Crash, Return, chainVars
  <2> QED
    BY <1>0, <2>1 DEF SeenInv
<1>4. ASSUME NEW h \in 0 .. height, GetLogs(h) PROVE SeenInv'
  <2>1. UNCHANGED <<chain, readOf>> /\ logChain' = chain
    BY <1>4 DEF GetLogs, chainVars
  <2> QED
    BY <1>0, <2>1 DEF SeenInv
<1>5. CASE Advance
  <2>1. UNCHANGED <<chain, logChain>> /\ readOf' = readOf \cup {headChain, logChain}
    BY <1>5 DEF Advance, chainVars, localVars
  <2> QED
    BY <1>0, <2>1 DEF SeenInv
<1>6. CASE ProcessLog
  <2>1. UNCHANGED <<chain, logChain>> /\ readOf' \subseteq readOf \cup {0}
    BY <1>6 DEF ProcessLog, HandleCreated, HandleInitializeV4, HandleSwap, HandleSwapV4,
       IgnoreFill, WriteFill, RollUpFill, HandleFrozen, HandleAction, HandleInert, LoseWrite, LoseHalfFrozen, LoseHalfFill,
       Handle, Take, Lose, chainVars, localVars, NoChain
  <2> QED
    BY <1>0, <2>1 DEF SeenInv
<1>7. CASE Mine \/ Relaunch \/ UNCHANGED vars
  <2>1. (chain' = chain \/ chain' = chain + 1) /\ UNCHANGED <<logChain, readOf>>
    BY <1>7 DEF Mine, Relaunch, vars, chainVars, localVars
  <2>2. \A c \in Nat : c <= chain => c <= chain'
    BY <1>0, <2>1
  <2> QED
    BY <1>0, <2>1, <2>2 DEF SeenInv
<1> QED
  BY <1>1, <1>2, <1>3, <1>4, <1>5, <1>6, <1>7 DEF Next, Poll

\* What is recorded stays recorded while the book is the store's and its rows grow.
LEMMA RecordedGrows ==
  ASSUME UNCHANGED <<chain, cfg>>, source = cfg => source' = cfg,
         pools \subseteq pools', swaps \subseteq swaps', entities \subseteq entities'
  PROVE  Recorded \subseteq Recorded'
<1>1. ASSUME NEW i \in Positions(chain), Applied(cfg, chain, i, Rows)
      PROVE  Applied(cfg, chain, i, Rows')
  <2>1. /\ Rows.pools \subseteq Rows'.pools /\ Rows.swaps \subseteq Rows'.swaps
        /\ Rows.entities \subseteq Rows'.entities
    BY DEF Rows
  <2> QED
    BY <1>1, <2>1, AppliedGrows
<1> QED
  BY <1>1 DEF Recorded

\* Rows that hold the blocks below the cursor leave nothing owed there.
LEMMA WholeMirror ==
  ASSUME TypeOK, source = cfg => WholeBelow(dLast)
  PROVE  Mirrored!Whole
<1>0. chain \in Chains /\ dLast \in Nat /\ StartBlock \in Nat
  BY PollerConstants DEF TypeOK
<1>1. SUFFICES ASSUME ReadTo > StartBlock, NEW i \in Positions(chain),
                      LogAt(chain, i).block > StartBlock, LogAt(chain, i).block <= ReadTo
               PROVE  i \in Recorded
  BY DEF Mirrored!Whole, Owed
<1>2. source = cfg /\ readOf \subseteq {chain} /\ ReadTo = dLast
  BY <1>0, <1>1 DEF ReadTo
<1>3. ReadWhole(cfg, chain, dLast, Rows)
  BY <1>0, <1>2 DEF WholeBelow
<1>4. LogAt(chain, i).block \in (StartBlock + 1) .. dLast
  <2>1. LogAt(chain, i).block \in Nat
    BY <1>0, LogAtType DEF Log
  <2> QED
    BY <1>0, <1>1, <1>2, <2>1
<1> QED
  BY <1>2, <1>3, <1>4 DEF ReadWhole, Recorded

\* A step that touches neither the book, the rows nor the stored cursor is none of the mirror's.
LEMMA MirrorQuiet ==
  ASSUME UNCHANGED <<chain, cfg, source, readOf, dLast, pools, swaps, entities>>
  PROVE  UNCHANGED Mirrored!vars
<1>1. Rows' = Rows
  BY DEF Rows
<1> QED
  BY <1>1 DEF Mirrored!vars, Owed, Recorded, ReadTo, LogAt, Positions

\* Every step of the poller, the chain and the faults is a step of the mirror, or none.
LEMMA MirrorStep ==
  ASSUME Behaved, WholeInv, WholeInv', CursorInv, SeenInv, [Next]_vars
  PROVE  [Mirrored!Next]_(Mirrored!vars)
<1> USE DEF Mirrored!Next
<1>0. /\ chain \in Chains /\ dLast \in Nat /\ lastBlock \in Nat /\ StartBlock \in Nat
      /\ chain \in Nat /\ cfg \in Nat
  BY PollerConstants DEF WholeInv, TypeOK, Chains, Configs
<1>1. ASSUME NEW k \in Configs, Start(k) PROVE [Mirrored!Next]_(Mirrored!vars)
  <2>1. /\ cfg' = k /\ k >= cfg
        /\ UNCHANGED <<chain, source, readOf, dLast, pools, swaps, entities>>
    BY <1>1 DEF Start, Behaved, diskVars, chainVars
  <2>2. CASE k = cfg
    BY <2>1, <2>2, MirrorQuiet
  <2>3. CASE k # cfg
    <3>1. source <= cfg /\ source \in Nat /\ k \in Nat
      BY PollerConstants DEF WholeInv, SourceInv, TypeOK, Configs, NoSource
    <3>2. source' # cfg'
      BY <1>0, <2>1, <2>3, <3>1
    <3>3. ReadTo' = 0 /\ 0 <= StartBlock
      BY <1>0, <3>2 DEF ReadTo
    <3> QED
      BY <2>1, <2>3, <3>3 DEF Mirrored!Switch
  <2> QED
    BY <2>2, <2>3
<1>2. CASE Open \/ Adopt
  <2>1. /\ \/ UNCHANGED <<source, readOf>>
           \/ source' = cfg /\ source # cfg /\ (dLast = 0 \/ NoChain \in readOf')
        /\ UNCHANGED <<chain, cfg, dLast, pools, swaps, entities>>
    <3>1. CASE Open
      BY <3>1, OpenEffect DEF WholeInv, Behaved
    <3>2. CASE Adopt
      BY <3>2 DEF Adopt, procVars, chainVars, WholeInv, SourceInv, Behaved
    <3> QED
      BY <1>2, <3>1, <3>2
  <2>2. CASE UNCHANGED <<source, readOf>>
    BY <2>1, <2>2, MirrorQuiet
  <2>3. CASE source' = cfg /\ source # cfg /\ (dLast = 0 \/ NoChain \in readOf')
    <3>1. NoChain \in readOf' => ~(readOf' \subseteq {chain})
      BY <1>0, NobodyVouches
    <3>2. ReadTo = 0 /\ ReadTo' = 0
      BY <2>1, <2>3, <3>1 DEF ReadTo
    <3>3. Recorded = {}
      BY <2>3 DEF Recorded
    <3>4. Owed' = Owed
      BY <2>1 DEF Owed, LogAt, Positions
    <3> QED
      BY <2>1, <3>2, <3>3, <3>4 DEF Mirrored!Record
  <2> QED
    BY <2>1, <2>2, <2>3
<1>3. CASE DropTable
  <2>1. source # cfg /\ UNCHANGED <<chain, cfg, source>>
    BY <1>3 DEF DropTable, procVars, chainVars, WholeInv, SourceInv
  <2> QED
    BY <2>1 DEF Mirrored!vars, Owed, Recorded, ReadTo, LogAt, Positions
<1>4. CASE PersistRewind
  <2>1. /\ dLast' = StartBlock /\ readOf' = {} /\ source = cfg
        /\ UNCHANGED <<chain, cfg, source, pools, swaps, entities>>
    BY <1>4 DEF PersistRewind, procVars, chainVars, WholeInv, SourceInv
  <2>2. ReadTo' <= StartBlock
    BY <1>0, <2>1 DEF ReadTo
  <2>3. Rows' = Rows
    BY <2>1 DEF Rows
  <2>4. UNCHANGED <<Owed, Recorded>>
    BY <2>1, <2>3 DEF Owed, Recorded, LogAt, Positions
  <2> QED
    BY <2>1, <2>2, <2>4 DEF Mirrored!Rewind
<1>5. CASE Advance
  <2>1. /\ readOf \subseteq readOf'
        /\ UNCHANGED <<chain, cfg, source, dLast, pools, swaps, entities>>
    BY <1>5 DEF Advance, diskVars, chainVars
  <2>2. Rows' = Rows
    BY <2>1 DEF Rows
  <2>3. UNCHANGED <<Owed, Recorded>>
    BY <2>1, <2>2 DEF Owed, Recorded, LogAt, Positions
  <2>4. ReadTo' = ReadTo \/ ReadTo' <= StartBlock
    BY <1>0, <2>1 DEF ReadTo
  <2> QED
    BY <2>1, <2>3, <2>4 DEF Mirrored!Rewind, Mirrored!vars
<1>6. CASE Persist
  <2>1. /\ pc = "persist" /\ dLast' = lastBlock /\ source = cfg
        /\ UNCHANGED <<chain, cfg, source, readOf, pools, swaps, entities>>
    BY <1>6 DEF Persist, procVars, chainVars, WholeInv, SourceInv
  <2>2. Rows' = Rows
    BY <2>1 DEF Rows
  <2>3. UNCHANGED <<Owed, Recorded>>
    BY <2>1, <2>2 DEF Owed, Recorded, LogAt, Positions
  <2>4. dLast <= lastBlock
    BY <2>1 DEF CursorInv, Opening
  <2>5. ReadTo' = ReadTo \/ ReadTo' > ReadTo
    BY <1>0, <2>1, <2>4 DEF ReadTo
  <2>6. Mirrored!Whole'
    <3>1. TypeOK' /\ (source = cfg => WholeBelow(dLast))'
      BY DEF WholeInv, LedgerInv
    <3> QED
      BY <3>1, WholeMirror, PTL
  <2> QED
    BY <2>1, <2>3, <2>5, <2>6 DEF Mirrored!Advance, Mirrored!vars
<1>7. CASE Relaunch
  <2>1. /\ chain' = chain + 1
        /\ UNCHANGED <<cfg, source, readOf, dLast>>
    BY <1>7 DEF Relaunch, diskVars, procVars
  <2>2. CASE readOf \subseteq {chain + 1}
    <3>1. \A c \in readOf : c <= chain /\ c = chain + 1
      BY <2>2 DEF SeenInv
    <3>2. readOf = {}
      BY <1>0, <3>1
    <3> QED
      BY <1>0, <2>1, <3>2 DEF ReadTo, CursorInv, Mirrored!Switch
  <2>3. CASE ~(readOf \subseteq {chain + 1})
    BY <1>0, <2>1, <2>3 DEF ReadTo, Mirrored!Switch
  <2> QED
    BY <2>2, <2>3
<1>8. CASE ProcessLog
  <2>1. PICK i \in todo : HandlerDone(i) \/ Lost(i)
    BY <1>8, HandlerEffect, LoseEffect DEF ProcessLog
  <2>2. chain' = chain
    BY <1>8 DEF ProcessLog, HandleCreated, HandleInitializeV4, HandleSwap, HandleSwapV4,
       IgnoreFill, WriteFill, RollUpFill, HandleFrozen, HandleAction, HandleInert, LoseWrite, LoseHalfFrozen, LoseHalfFill,
       Handle, Take, Lose, chainVars
  <2>3. Recorded \subseteq Recorded'
    BY <2>1, <2>2, RecordedGrows DEF HandlerDone, Lost
  <2>4. UNCHANGED <<cfg, Owed>>
    BY <2>1, <2>2 DEF HandlerDone, Lost, Owed, LogAt, Positions
  <2>5. CASE HandlerDone(i)
    <3>1. ReadTo' = ReadTo
      BY <2>2, <2>5 DEF HandlerDone, ReadTo
    <3> QED
      BY <2>2, <2>3, <2>4, <3>1 DEF Mirrored!Record
  <2>6. CASE Lost(i)
    <3>1. ~(readOf' \subseteq {chain})
      BY <1>0, <2>6, NobodyVouches DEF Lost
    <3>2. ReadTo' = 0 /\ ReadTo' <= StartBlock
      BY <1>0, <2>2, <3>1 DEF ReadTo
    <3> QED
      BY <2>2, <2>3, <2>4, <3>2 DEF Mirrored!Rewind
  <2> QED
    BY <2>1, <2>5, <2>6
<1>9. ASSUME \/ Load \/ EnsureGenesisHash \/ CountLowHead \/ ProbeFails \/ Probe
             \/ NothingNew \/ FetchFails \/ Panic \/ Crash \/ Mine \/ UNCHANGED vars
             \/ \E h \in 0 .. height : ReadHead(h) \/ GetLogs(h)
      PROVE  UNCHANGED Mirrored!vars
  <2>1. UNCHANGED <<chain, cfg, source, readOf, dLast, pools, swaps, entities>>
    BY <1>9 DEF Load, EnsureGenesisHash, CountLowHead, ProbeFails, Probe, NothingNew, FetchFails,
       Panic, Crash, Mine, vars, ReadHead, GetLogs, diskVars, procVars, chainVars
  <2> QED
    BY <2>1, MirrorQuiet
<1> QED
  BY <1>1, <1>2, <1>3, <1>4, <1>5, <1>6, <1>7, <1>8, <1>9 DEF Next, Startup, Poll

\* The poller mirrors the running chain: for every history, any number of crashes, recovered
\* panics, failed reads, relaunches and address-set changes, under the conditions
\* of BlocksReadWhole, the cursor a restart would load moves up past complete blocks only
\* or back to the start, and no row of a book that is still the store's is lost.
THEOREM PollerMirrors == Behaved => (Spec => BookMirrored)
<1> SUFFICES ASSUME Behaved PROVE Spec => BookMirrored
  OBVIOUS
<1>1. Init => CursorInv /\ SeenInv /\ Mirrored!Init
  BY PollerConstants DEF Init, CursorInv, SeenInv, Mirrored!Init, ReadTo, Opening, NoSource, NoChain
<1>2. WholeInv /\ CursorInv /\ SeenInv /\ [Next]_vars => CursorInv' /\ SeenInv'
  BY CursorStep, SeenStep DEF WholeInv
<1>3. WholeInv /\ WholeInv' /\ CursorInv /\ SeenInv /\ [Next]_vars => [Mirrored!Next]_(Mirrored!vars)
  BY MirrorStep
<1> QED
  BY <1>1, <1>2, <1>3, WholeInvariant, PTL DEF Spec, BookMirrored, Mirrored!Spec

=============================================================================
