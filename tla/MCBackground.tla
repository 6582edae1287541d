---------------------------- MODULE MCBackground ----------------------------
(* Small instances of the background work: alerts, and analyses. *)
EXTENDS Background, TLC

CONSTANTS s1, s2, r1, r2

\* A publication, searches that come and go meanwhile, and everything may fail.
Alerting == [calls |-> {"worker", "publish", "unpublish", "createSearch", "updateSearch", "removeSearch"},
             fails |-> TRUE, jobs |-> 1]

\* Two publications of a business.
Republishing == [Alerting EXCEPT !.calls = @ \ {"updateSearch"}, !.fails = FALSE, !.jobs = 2]

\* Two analyses at once, and everything may fail.
Analyzing == [calls |-> {"worker", "requestAnalysis", "subscribe"}, fails |-> TRUE, jobs |-> 2]

\* Many are asked for, over midnight and by a new subscriber, and wait in the queue.
Asking == [calls |-> {"requestAnalysis", "subscribe", "midnight"}, fails |-> TRUE, jobs |-> 4]

Parts == {Alerting, Republishing, Analyzing, Asking}

AllJobs == AlertJob \cup AiJob

BackgroundSymmetry == Permutations(Request) \cup Permutations(Search)

=============================================================================
