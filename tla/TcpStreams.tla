----------------------------- MODULE TcpStreams -----------------------------
(***************************************************************************)
(* The TCP streams libnids tells the filter about (external: libnids is    *)
(* not part of the repository).  process_tcpdata (src/tcp.c) turns a       *)
(* stream's establishment, data, and close or reset into calls of          *)
(* process_smtp; a stream that libnids gives up (NIDS_TIMED_OUT,           *)
(* NIDS_EXITING) makes no call, and its addresses may be used again.       *)
(***************************************************************************)
EXTENDS Integers

CONSTANTS
    Conns,      \* connections, by their addresses
    MaxStreams  \* bound: streams established in a behaviour

SmtpPort == 25

ASSUME ConnsAssumption ==
    \A c \in Conns : /\ c = [saddr |-> c.saddr, sport |-> c.sport, daddr |-> c.daddr, dport |-> c.dport]
                     /\ c.dport = SmtpPort
ASSUME MaxStreamsAssumption == MaxStreams \in Nat

VARIABLES
    up,        \* the connections that have a stream
    serial,    \* the number of a connection's latest stream
    streams,   \* streams established so far
    abandoned  \* the streams libnids gave up without a close or a reset

streamVars == <<up, serial, streams, abandoned>>

Established(c) ==
    /\ c \notin up /\ streams < MaxStreams
    /\ up' = up \cup {c}
    /\ streams' = streams + 1
    /\ serial' = [serial EXCEPT ![c] = streams + 1]
    /\ UNCHANGED abandoned
Delivering(c) == c \in up /\ UNCHANGED streamVars
Ended(c) ==
    /\ c \in up
    /\ up' = up \ {c}
    /\ UNCHANGED <<serial, streams, abandoned>>
GivenUp(c) ==
    /\ c \in up
    /\ up' = up \ {c}
    /\ abandoned' = abandoned \cup {serial[c]}
    /\ UNCHANGED <<serial, streams>>

StreamsInit ==
    /\ up = {} /\ streams = 0 /\ abandoned = {}
    /\ serial = [c \in Conns |-> 0]

StreamsTypeOK ==
    /\ streams \in 0..MaxStreams
    /\ serial \in [Conns -> 0..streams]
    /\ up \subseteq {c \in Conns : serial[c] > 0}
    /\ abandoned \subseteq 1..streams

=============================================================================
