--------------------------------- MODULE MCBus ---------------------------------
(* The driver with two tasks and everything the bus can do to them: two reads *)
(* of one register each, whose replies have the same length, and one write.   *)
EXTENDS AuroraModbus

CONSTANTS poller, httpd

MCTasks == {poller, httpd}

ReadFault == [fc |-> "read",  reg |-> 25,    arg |-> 1]
ReadPump  == [fc |-> "read",  reg |-> 325,   arg |-> 1]
WriteCool == [fc |-> "write", reg |-> 21204, arg |-> 700]

\* Another slave's exception in answer to the AWL, of the length of any other.
AwlRefused == [addr |-> "other", fc |-> "exception", b2 |-> 3, reg |-> 740,
               arg |-> 1, ver |-> 0, crc |-> TRUE]

NoisyRequests == {ReadFault, WriteCool}
NoisyForeign  == {AwlRefused}
QuietRequests == {ReadFault, ReadPump, WriteCool}
=============================================================================
