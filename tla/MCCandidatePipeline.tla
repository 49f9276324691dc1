------------------------ MODULE MCCandidatePipeline ------------------------
(***************************************************************************)
(* Instances of CandidatePipeline for TLC.                                 *)
(***************************************************************************)
EXTENDS CandidatePipeline, TLC

\* A file with a link, another file with the same link, and a link of its own.
\* A common development identifier acts as a common source does, so that none
\* is needed here.
TwoCandidates == {"c1", "c2"}
ThreeSignals  == {"file", "sameLink", "other"}
SignalSource  == [file |-> "X", sameLink |-> "Y", other |-> "Z"]
SignalLink    == [file |-> "a", sameLink |-> "a", other |-> "b"]
NoIdentifiers == [s \in Signals |-> {}]
FiledSignals  == {"file", "sameLink"}

\* The second candidate is the first one again, shares its link, or is new.
TwoSubmissions == {[c1 |-> "file", c2 |-> s] : s \in Signals}
=============================================================================
