---------------------------- MODULE ReportChannel ----------------------------
(***************************************************************************)
(* What a CTAPHID channel promises the command layer: a first-in first-out *)
(* queue of the reports of one channel.  A caller inside Read gets the     *)
(* oldest unread report, or the terminal read error once no report is      *)
(* left, or its own context error; nothing is reordered, duplicated or     *)
(* withheld while a caller waits for it.                                   *)
(*                                                                         *)
(* ChannelDevice implements this specification.                            *)
(***************************************************************************)
EXTENDS Sequences

CONSTANTS Reports,  \* every report the HID endpoint may carry
          Channels, \* channel identifiers
          Errors,   \* terminal errors a read may end with
          None      \* no error yet

VARIABLES channel,  \* the channel the queue belongs to
          queue,    \* accepted reports not read yet
          failure,  \* terminal read error, or None
          reading   \* a caller is inside Read

vars == <<channel, queue, failure, reading>>

Init == /\ channel \in Channels
        /\ queue = <<>>
        /\ failure = None
        /\ reading = FALSE

\* A report of this channel arrives.
Arrive(r) == /\ failure = None
             /\ r.cid = channel
             /\ queue' = Append(queue, r)
             /\ UNCHANGED <<channel, failure, reading>>

\* The endpoint fails or is closed: no report arrives afterwards.
Fail(e) == /\ failure = None
           /\ failure' = e
           /\ UNCHANGED <<channel, queue, reading>>

\* The queue is bound to a newly allocated channel and starts empty.
Rebind(c) == /\ ~reading
             /\ channel' = c
             /\ queue' = <<>>
             /\ UNCHANGED <<failure, reading>>

Call == /\ ~reading
        /\ reading' = TRUE
        /\ UNCHANGED <<channel, queue, failure>>

\* Read returns the oldest report.
Take == /\ reading
        /\ queue # <<>>
        /\ queue' = Tail(queue)
        /\ reading' = FALSE
        /\ UNCHANGED <<channel, failure>>

\* Read returns the terminal error, which never overtakes a report.
TakeFailure == /\ reading
               /\ queue = <<>>
               /\ failure # None
               /\ reading' = FALSE
               /\ UNCHANGED <<channel, queue, failure>>

\* Read returns the error of the caller's own context, consuming nothing.
GiveUp == /\ reading
          /\ reading' = FALSE
          /\ UNCHANGED <<channel, queue, failure>>

Next == \/ \E r \in Reports : Arrive(r)
        \/ \E e \in Errors : Fail(e)
        \/ \E c \in Channels : Rebind(c)
        \/ Call
        \/ Take
        \/ TakeFailure
        \/ GiveUp

Spec == Init /\ [][Next]_vars

\* A caller that something is there for does not wait for ever.
FairSpec == Spec /\ WF_vars(Take \/ TakeFailure)
=============================================================================
