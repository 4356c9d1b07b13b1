------------------------------ MODULE Mailbox ------------------------------
(***************************************************************************)
(* Abstract specification of what the downward message queue promises, per *)
(* destination: an append-only log of everything admitted since the        *)
(* destination was (re)registered, and a mailbox that is always the        *)
(* not-yet-consumed tail of that log.  Messages enter at the back only,    *)
(* leave from the front only, and the log is forgotten only as a whole     *)
(* (decommission).                                                         *)
(***************************************************************************)
EXTENDS Naturals, Sequences

CONSTANTS
  Paras,     \* destination identifiers
  Messages   \* what one admitted message is (payload and block number)

VARIABLES
  log,       \* [Paras -> Seq(Messages)]: every message admitted, in order
  mailbox    \* [Paras -> Seq(Messages)]: the pending tail of log

mvars == <<log, mailbox>>

MInit ==
  /\ log = [p \in Paras |-> <<>>]
  /\ mailbox = [p \in Paras |-> <<>>]

\* A message is admitted: it is committed to the log and queued behind
\* every earlier one.
MSend(p, m) ==
  /\ log' = [log EXCEPT ![p] = Append(@, m)]
  /\ mailbox' = [mailbox EXCEPT ![p] = Append(@, m)]

\* The destination consumes the k oldest pending messages (k = 0 allowed).
MConsume(p, k) ==
  /\ mailbox' = [mailbox EXCEPT ![p] = SubSeq(@, k + 1, Len(@))]
  /\ UNCHANGED log

\* The destinations in out are decommissioned: all their history is gone.
MReset(out) ==
  /\ log' = [p \in Paras |-> IF p \in out THEN <<>> ELSE log[p]]
  /\ mailbox' = [p \in Paras |-> IF p \in out THEN <<>> ELSE mailbox[p]]

MNext ==
  \/ \E p \in Paras, m \in Messages : MSend(p, m)
  \/ \E p \in Paras : \E k \in 0 .. Len(mailbox[p]) : MConsume(p, k)
  \/ \E out \in SUBSET Paras : MReset(out)

MSpec == MInit /\ [][MNext]_mvars

=============================================================================
