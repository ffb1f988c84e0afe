------------------------------ MODULE WsClient ------------------------------
(***************************************************************************)
(* bin/ws_client.rs against the bus: one session per endpoint.  A forwarder *)
(* thread per connection puts frames on an unbounded channel in the order   *)
(* it reads them; the main thread keeps or drops each.  The channel keeps   *)
(* the order of arrival, so reading a connection and deciding is one step.  *)
(***************************************************************************)
EXTENDS Bus

VARIABLES last_seq_by_instr,  \* highest number printed of each instrument, at first 0
          arrived,            \* history: the numbers that arrived, per instrument
          printed             \* history: the numbers printed, per instrument

clientVars == <<last_seq_by_instr, arrived, printed>>

ClientInit ==
  /\ Init
  /\ last_seq_by_instr = [i \in Channels |-> 0]
  /\ arrived = [i \in Channels |-> {}]
  /\ printed = [i \in Channels |-> <<>>]

\* "drop duplicate/old", or print.
Handle(i, n) ==
  IF n <= last_seq_by_instr[i]
  THEN UNCHANGED <<last_seq_by_instr, printed>>
  ELSE /\ last_seq_by_instr' = [last_seq_by_instr EXCEPT ![i] = n]
       /\ printed' = [printed EXCEPT ![i] = Append(@, n)]

ClientRead(c) ==
  /\ Read(c)
  /\ LET f == Head(wire[c])
     IN  /\ Handle(f.instr, f.seq)
         /\ arrived' = [arrived EXCEPT ![f.instr] = @ \cup {f.seq}]

ClientNext ==
  \/ Serve /\ UNCHANGED clientVars
  \/ \E c \in Sessions : ClientRead(c)

ClientSpec == ClientInit /\ [][ClientNext]_<<vars, clientVars>>

----------------------------------------------------------------------------
\* "Keep the first frame for a given (instrument_id, sequence); drop later duplicates
\* from the other endpoint": every number that arrived on either endpoint is printed.
FirstFrameKept ==
  \A i \in Channels : \A n \in arrived[i] \ {0} :
    \E k \in 1 .. Len(printed[i]) : printed[i][k] = n
=============================================================================
