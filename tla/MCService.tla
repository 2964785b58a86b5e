------------------------------ MODULE MCService ------------------------------
(***************************************************************************)
(* The two processes that keep records, the indexer and the snapshotter, and   *)
(* the decoder the indexer uses. They share no state here: a behaviour is one    *)
(* of any, the others at rest. Rates 1 and 3 are more than a factor of two       *)
(* apart, and 2 is within two of either.                                     *)
(***************************************************************************)
EXTENDS Indexer, Snapshotter, EventDecoder

VARIABLE part     \* the service this behaviour is of

servicesVars == <<part, vars, snapVars, decoderVars>>

MCRates == {1, 2, 3}

MCTopics == {"mint", "transfer", "swap"}

ServicesInit ==
  /\ part \in {"indexer", "snapshotter", "decoder"}
  /\ Init /\ SnapInit /\ DecoderInit
  /\ part # "snapshotter" => rate = 1

ServicesNext ==
  /\ UNCHANGED part
  /\ \/ part = "indexer" /\ Next /\ UNCHANGED <<snapVars, decoderVars>>
     \/ part = "snapshotter" /\ SnapNext /\ UNCHANGED <<vars, decoderVars>>
     \/ part = "decoder" /\ DecoderNext /\ UNCHANGED <<vars, snapVars>>

\* Ledgers close and the timer of the indexer keeps firing. The interval of the snapshotter
\* keeps firing, its awaits end, and a read of everything succeeds every now and then.
Fairness ==
  /\ WF_vars(part = "indexer" /\ CloseLedger)
  /\ \A p \in Polls : WF_vars(part = "indexer" /\ PollStep(p))
  /\ \A t \in Takes :
       /\ WF_snapVars(/\ part = "snapshotter"
                      /\ BeginSnapshot(t) \/ CheckRate(t) \/ CreateRow(t)
                           \/ \E ok \in SUBSET Reads : ReadAll(t, ok))
       /\ SF_snapVars(part = "snapshotter" /\ ReadAll(t, Reads))

ServicesSpec == ServicesInit /\ [][ServicesNext]_servicesVars /\ Fairness
=============================================================================
