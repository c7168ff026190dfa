-------------------------------- MODULE MCPoller --------------------------------
(* The poll task with two spans of equal length next to each other, as 25 and *)
(* 325 are in SPANS, and the HTTP server reading the same registers.          *)
EXTENDS Poller

CONSTANTS poller, httpd

MCTasks == {poller, httpd}

ReadFault == [fc |-> "read",  reg |-> 25,    arg |-> 1]
ReadPump  == [fc |-> "read",  reg |-> 325,   arg |-> 1]

MCRequests == {ReadFault, ReadPump}
MCSpans    == <<ReadFault, ReadPump>>
=============================================================================
