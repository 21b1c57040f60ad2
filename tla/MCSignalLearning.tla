-------------------------- MODULE MCSignalLearning --------------------------
(* Instances of SignalLearning for TLC.                                    *)
EXTENDS SignalLearning, TLC

\* Four dimensions above 50, and two of them: the fallback tags the first only.
Strong == [gex |-> 80, vix |-> 60, crypto |-> 60, darkpool |-> 60]
Mixed  == [gex |-> 80, vix |-> 60, crypto |-> 20, darkpool |-> 0]

MCScorings == {Strong, Mixed}

AlertSymmetry == Permutations(Alerts)
=============================================================================
