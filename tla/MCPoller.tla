------------------------------ MODULE MCPoller ------------------------------
(***************************************************************************)
(* Small instances of Poller.  Chain 1 has a pair of each factory, swaps of *)
(* both, a market whose fills come before and after its Initialize, and two *)
(* freezes of one holder; chain 2 is the relaunched chain.                  *)
(***************************************************************************)
EXTENDS Poller

L(b, k, e, s) == [block |-> b, kind |-> k, emitter |-> e, subject |-> s]

MCSubject == {"p1", "p2", "m"}
MCAddress == {"f1", "f2", "pm", "p1", "p2"}

\* Config 2 corrects the factory, as the comment on NewWithConfig recounts.
Trust(f) == [k \in ScopedKinds |-> IF k \in CreateKinds THEN f ELSE "pm"]
TwoRoots == <<Trust("f1"), Trust("f2")>>
OneRoot  == <<Trust("f1")>>

LongChain ==
  << L(1, "PairCreated", "f1", "p1"), L(1, "DEXFill", "pm", "m"),
     L(2, "PoolCreated", "f2", "p2"), L(2, "Swap", "p1", "p1"),
     L(3, "InitializeV4", "pm", "m"), L(3, "DEXFill", "pm", "m"),
     L(3, "AddressFrozen", "p1", "p1"), L(4, "Swap", "p2", "p2"),
     L(4, "AddressFrozen", "p1", "p1"), L(4, "DEXFill", "f1", "m") >>

OtherChain ==
  << L(1, "PairCreated", "f1", "p2"), L(1, "SwapV4", "pm", "m"),
     L(2, "Swap", "p2", "p2"), L(2, "Action", "f2", "m"), L(2, "Inert", "p2", "p2") >>

BothHistories == <<LongChain, OtherChain>>
BothHeights   == <<4, 2>>

\* What the first address set's poller left at block 2 of the long chain before stores
\* recorded their source.
LeftAtTwo ==
  [lastBlock |-> 2, pools |-> {"p1"}, swaps |-> {<<1, 4>>}, entities |-> {<<1, 2>>},
   tally |-> [s \in MCSubject |-> IF s = "m" THEN 1 ELSE 0],
   frozen |-> [s \in MCSubject |-> NoRow]]
Older == {LeftAtTwo}

\* For the live run: the old chain is long beside the one that replaces it.
LiveHistories == << << L(1, "PairCreated", "f1", "p1"), L(1, "DEXFill", "pm", "m"),
                       L(2, "InitializeV4", "pm", "m"), L(3, "Swap", "p1", "p1"),
                       L(3, "DEXFill", "pm", "m") >>,
                    << L(1, "PairCreated", "f1", "p2"), L(1, "Swap", "p2", "p2") >> >>
LiveHeights   == <<4, 1>>

=============================================================================
