----------------------------- MODULE SmtpStorage -----------------------------
(***************************************************************************)
(* The memory behind the commands that carry a name or an address: HELO,   *)
(* EHLO, the user name and password of AUTH, MAIL and RCPT.  A command     *)
(* mallocs, takes objects from the pools of strings, addresses and events, *)
(* any of which may be refused, and gives back what it took on every way   *)
(* out; an event that was analysed belongs to libnel until it is released. *)
(*                                                                         *)
(* Memory is abstracted to blocks: every kind has addresses of its own,    *)
(* malloc takes the lowest free one or refuses.  The pools of the kinds of *)
(* event are one pool, a mailbox with the texts in it is one block, and a  *)
(* text is a block without contents.                                       *)
(***************************************************************************)
EXTENDS MemPool, Clist

CONSTANTS
    Blocks,        \* the memory, by kind
    PoolLen,       \* SMTP_MEM_STACK_DEPTH: objects a pool starts with
    Commands,      \* the commands the client may give
    MaxMailboxes,  \* bound: mailboxes in a path
    MaxHeld        \* bound: events libnel holds

ASSUME BlocksAssumption ==
    /\ Blocks \in [{"string", "address", "event", "atom", "list"} -> SUBSET (Nat \ {None})]
    /\ \A k1, k2 \in DOMAIN Blocks : k1 # k2 => Blocks[k1] \cap Blocks[k2] = {}
    /\ \A k \in DOMAIN Blocks : IsFiniteSet(Blocks[k])
ASSUME PoolLenAssumption == PoolLen \in Nat
ASSUME MaxHeldAssumption == MaxHeld \in Nat
ASSUME CommandsAssumption == Commands \subseteq {"HELO", "EHLO", "USER", "PASS", "MAIL", "RCPT"}

Kinds == {"string", "address", "event"}
Greetings == {"HELO", "EHLO"}
Logins == {"USER", "PASS"}
Paths == {"MAIL", "RCPT"}

VARIABLES
    heap,      \* the blocks that malloc gave and free has not taken back
    pools,     \* the pools, by kind
    helo_name, \* of the session
    held,      \* the events libnel holds
    cmd,       \* the command that is parsed
    at,        \* "idle", or how far the parsing is
    name,      \* host_name
    text,      \* user_name, pass, sender, recipient
    event,     \* helo, ehlo, user, passwd, mail, rcpt
    list,      \* struct_list
    value,     \* the mailbox that has just been parsed
    mb_list,   \* the structure around the list
    parsed     \* history: the mailboxes of the list, in order

session == <<helo_name, held>>
path == <<list, value, mb_list, parsed>>
vars == <<heap, pools, helo_name, held, cmd, at, name, text, event, path>>

NoEvent == [node |-> None, name |-> None, text |-> None, kind |-> "string"]
NoList == ClistNew(None)
Set(b) == {b} \ {None}

(***************************************************************************)
(* Memory                                                                  *)
(***************************************************************************)
\* What malloc may answer.
Malloc(kind) ==
    LET free == Blocks[kind] \ heap IN {None} \cup IF free = {} THEN {} ELSE {Min(free)}

\* alloc_mem of a pool, and what it does to the state.
Alloc(kind) == AllocMem(pools[kind], Blocks[kind] \ heap)
Allocated(kind, r) ==
    /\ pools' = [pools EXCEPT ![kind] = r.pool]
    /\ heap' = heap \cup DOMAIN r.pool.next \cup Set(r.got)

\* free_mem; NULL is left alone.
Give(ps, kind, b) == IF b = None THEN ps ELSE [ps EXCEPT ![kind] = FreeMem(@, b)]
\* What an event takes with it: its text and its node.
GiveEvent(ps, e) == Give(Give(ps, e.kind, e.text), "event", e.node)
GiveEvents(ps, es) ==
    LET given[i \in 0..Len(es)] == IF i = 0 THEN ps ELSE GiveEvent(given[i - 1], es[i])
    IN given[Len(es)]

\* The blocks of a list, as clist_foreach and clist_free free them.
ListFree == Foreach(list) \o SetToSeq(DOMAIN list.cells) \o <<list.at>>
MailboxListFree == ListFree \o <<mb_list>>

(***************************************************************************)
(* The ways out                                                            *)
(***************************************************************************)
\* The locals are gone.
Return ==
    /\ at' = "idle" /\ cmd' = "none" /\ name' = None /\ text' = None /\ event' = NoEvent
    /\ list' = NoList /\ value' = None /\ mb_list' = None /\ parsed' = <<>>

\* A block is freed twice, or NULL is read: anything may follow.
Undefined == at' = "undefined" /\ UNCHANGED <<heap, pools, cmd, name, text, event, path>>

\* The blocks are freed, the pools are ps, and the command returns.
Leave(blocks, ps) ==
    IF IsInjective(blocks)
    THEN heap' = heap \ ToSet(blocks) /\ pools' = ps /\ Return
    ELSE Undefined

\* smtp_cmd_helo_parse frees host_name and then the event that holds it;
\* smtp_cmd_ehlo_parse the event but not the host_name in it.
FreeHelo ==
    /\ at = "free" /\ cmd \in Greetings
    /\ Leave(SetToSeq(Set(name)) \o (IF cmd = "HELO" THEN SetToSeq(Set(event.name)) ELSE <<>>),
             Give(Give(pools, "string", helo_name), "event", event.node))
    /\ helo_name' = IF at' = "undefined" THEN helo_name ELSE None
    /\ UNCHANGED held
FreeText ==
    /\ at = "free" /\ cmd \in Logins \cup Paths
    /\ Leave(<<>>, GiveEvent(Give(pools, IF cmd \in Paths THEN "address" ELSE "string", text), event))
    /\ UNCHANGED session

(***************************************************************************)
(* HELO and EHLO                                                           *)
(***************************************************************************)
HostName(c) ==
    /\ at = "idle" /\ c \in Greetings
    /\ \E b \in Malloc("atom") \ {None} : heap' = heap \cup {b} /\ name' = b
    /\ cmd' = c /\ at' \in {"name", "free"}
    /\ UNCHANGED <<pools, session, text, event, path>>

\* A name that is too long is refused before the pool is asked.
HeloName ==
    /\ at = "name"
    /\ \/ \E r \in Alloc("string") :
             Allocated("string", r) /\ helo_name' = r.got
       \/ helo_name' = None /\ UNCHANGED <<heap, pools>>
    /\ at' = IF helo_name' = None THEN "free" ELSE "event"
    /\ UNCHANGED <<held, cmd, name, text, event, path>>

(***************************************************************************)
(* The user name and the password                                          *)
(***************************************************************************)
Login(c) ==
    /\ at = "idle" /\ c \in Logins
    /\ \/ \E r \in Alloc("string") : r.got # None /\ Allocated("string", r) /\ text' = r.got
       \/ text' = None /\ UNCHANGED <<heap, pools>>
    /\ cmd' = c /\ at' = "event" /\ UNCHANGED <<session, name, event, path>>

(***************************************************************************)
(* The paths of MAIL and RCPT                                              *)
(***************************************************************************)
Mailbox ==
    \E b \in Malloc("list") \ {None} : heap' = heap \cup {b} /\ value' = b

FirstMailbox(c) ==
    /\ at = "idle" /\ c \in Paths /\ Mailbox
    /\ cmd' = c /\ at' = "list"
    /\ UNCHANGED <<pools, session, name, text, event, list, mb_list, parsed>>

\* smtp_struct_list_parse
NewList ==
    /\ at = "list" /\ UNCHANGED session
    /\ \E b \in Malloc("list") :
          IF b = None THEN Leave(<<value>>, pools)
          ELSE /\ list' = ClistNew(b) /\ heap' = heap \cup {b} /\ at' = "append"
               /\ UNCHANGED <<pools, cmd, name, text, event, value, mb_list, parsed>>
\* Mutants: the mailbox that found no cell stays; its pointer does.
AppendKept ==
    /\ at = "append" /\ value' = None
    /\ \E b \in Malloc("list") :
          IF b = None
          THEN at' = "unlist" /\ UNCHANGED <<heap, list, parsed>>
          ELSE /\ list' = ClistAppend(list, b, value) /\ parsed' = Append(parsed, value)
               /\ heap' = heap \cup {b} /\ at' = "more"
    /\ UNCHANGED <<pools, session, cmd, name, text, event, mb_list>>
AppendStale ==
    /\ at = "append" /\ Blocks["list"] # {} /\ value' = value
    /\ heap' = heap \ {value} /\ at' = "unlist"
    /\ UNCHANGED <<list, parsed, pools, session, cmd, name, text, event, mb_list>>
AppendMailbox ==
    /\ at = "append" /\ value' = None
    /\ \E b \in Malloc("list") :
          IF b = None
          THEN heap' = heap \ {value} /\ at' = "unlist" /\ UNCHANGED <<list, parsed>>
          ELSE /\ list' = ClistAppend(list, b, value) /\ parsed' = Append(parsed, value)
               /\ heap' = heap \cup {b} /\ at' = "more"
    /\ UNCHANGED <<pools, session, cmd, name, text, event, mb_list>>

\* Another mailbox, the end of the list, or a text that is cut.
NextMailbox ==
    /\ at = "more" /\ list.number < MaxMailboxes /\ Mailbox /\ at' = "append"
    /\ UNCHANGED <<pools, session, cmd, name, text, event, list, mb_list, parsed>>
LastMailbox ==
    /\ at = "more" /\ at' \in {"wrap", "unlist"}
    /\ UNCHANGED <<heap, pools, session, cmd, name, text, event, path>>
\* Mutant: the mailboxes are freed once with the list and once alone.
FreeListTwice == at = "unlist" /\ Leave(Foreach(list) \o ListFree, pools) /\ UNCHANGED session
FreeList == at = "unlist" /\ Leave(ListFree, pools) /\ UNCHANGED session

\* smtp_mailbox_list_new
Wrap ==
    /\ at = "wrap"
    /\ \E b \in Malloc("list") :
          IF b = None THEN at' = "unlist" /\ UNCHANGED <<heap, mb_list>>
          ELSE mb_list' = b /\ heap' = heap \cup {b} /\ at' = "address"
    /\ UNCHANGED <<pools, session, cmd, name, text, event, list, value, parsed>>

\* smtp_adl_path_parse, behind the list: where it fails the list is freed, and
\* once more at err.
PathFails ==
    /\ at = "address" /\ Leave(MailboxListFree \o MailboxListFree, pools)
    /\ UNCHANGED session
PathAddress ==
    /\ at = "address" /\ list.number = 1
    /\ \E r \in Alloc("address") :
          /\ r.got # None /\ text' = r.got
          /\ pools' = [pools EXCEPT !["address"] = r.pool]
          /\ heap' = (heap \cup DOMAIN r.pool.next \cup {r.got}) \ ToSet(MailboxListFree)
    /\ at' = "parameters" /\ list' = NoList /\ mb_list' = None /\ parsed' = <<>>
    /\ UNCHANGED <<session, cmd, name, event, value>>
Parameters ==
    /\ at = "parameters" /\ at' \in {"event", "free"}
    /\ UNCHANGED <<heap, pools, session, cmd, name, text, event, path>>

(***************************************************************************)
(* The event                                                               *)
(***************************************************************************)
\* smtp_cmd_*_new takes what was parsed.  The user name that found no event
\* stays; the event of an empty user name reads NULL.
NewEvent ==
    /\ at = "event" /\ UNCHANGED session
    /\ \E r \in Alloc("event") :
          CASE r.got = None /\ cmd = "USER" -> Return /\ UNCHANGED <<heap, pools>>
            [] r.got = None /\ cmd # "USER" ->
                 at' = "free" /\ UNCHANGED <<heap, pools, cmd, name, text, event, path>>
            [] r.got # None /\ cmd = "USER" /\ text = None -> Undefined
            [] OTHER ->
                 /\ Allocated("event", r)
                 /\ event' = [node |-> r.got, name |-> name, text |-> text,
                              kind |-> IF cmd \in Paths THEN "address" ELSE "string"]
                 /\ name' = IF cmd = "HELO" THEN name ELSE None
                 /\ text' = None /\ at' = "analysis" /\ UNCHANGED <<cmd, path>>

\* nel_env_analysis keeps the event, or fails.
Analysed ==
    /\ at = "analysis" /\ Cardinality(held) < MaxHeld
    /\ held' = held \cup {event} /\ Return /\ UNCHANGED <<heap, pools, helo_name>>
EngineFails ==
    /\ at = "analysis" /\ at' = "free"
    /\ UNCHANGED <<heap, pools, session, cmd, name, text, event, path>>

\* libnel lets go of an event: smtp_cmd_*_free.
Release ==
    /\ at = "idle"
    /\ \E e \in held :
          /\ held' = held \ {e} /\ heap' = heap \ Set(e.name) /\ pools' = GiveEvent(pools, e)
    /\ UNCHANGED <<helo_name, cmd, at, name, text, event, path>>

(***************************************************************************)
(* The session                                                             *)
(***************************************************************************)
\* smtp_helo_reset, when the greeting is refused.
HeloReset ==
    /\ at = "idle" /\ helo_name # None
    /\ pools' = Give(pools, "string", helo_name) /\ helo_name' = None
    /\ UNCHANGED <<heap, held, cmd, at, name, text, event, path>>

\* free_smtp_info, and the session that takes its place.
Close ==
    /\ at = "idle" /\ helo_name' = None /\ held' = {}
    /\ heap' = heap \ UNION {Set(e.name) : e \in held}
    /\ pools' = GiveEvents(Give(pools, "string", helo_name), SetToSeq(held))
    /\ UNCHANGED <<cmd, at, name, text, event, path>>

Init ==
    \* smtp_init fills the pools as far as it can.
    /\ pools \in {f \in [Kinds -> UNION {Filled(EmptyPool, PoolLen, Blocks[k]) : k \in Kinds}] :
                     \A k \in Kinds : f[k] \in Filled(EmptyPool, PoolLen, Blocks[k])}
    /\ heap = UNION {DOMAIN pools[k].next : k \in Kinds}
    /\ helo_name = None /\ held = {} /\ at = "idle" /\ cmd = "none"
    /\ name = None /\ text = None /\ event = NoEvent
    /\ list = NoList /\ value = None /\ mb_list = None /\ parsed = <<>>

Next ==
    \/ \E c \in Commands : HostName(c) \/ Login(c) \/ FirstMailbox(c)
    \/ HeloName \/ NewList \/ AppendMailbox \/ NextMailbox \/ LastMailbox \/ FreeList
    \/ Wrap \/ PathFails \/ PathAddress \/ Parameters
    \/ NewEvent \/ Analysed \/ EngineFails \/ FreeHelo \/ FreeText
    \/ Release \/ HeloReset \/ Close

Spec == Init /\ [][Next]_vars

-----------------------------------------------------------------------------
Points == {"idle", "name", "free", "event", "analysis", "list", "append", "more", "unlist",
           "wrap", "address", "parameters", "undefined"}
Texts(e) == Set(e.name) \cup Set(e.text)
Pooled(kind) == DOMAIN pools[kind].next

\* The state's types.
TypeOK ==
    /\ heap \subseteq UNION Range(Blocks) /\ {helo_name, name, text, value, mb_list} \subseteq heap \cup {None}
    /\ at \in Points /\ cmd \in Commands \cup {"none"}
    /\ Cardinality(held) <= MaxHeld
    /\ \A e \in held \cup {event} : {e.node, e.name, e.text} \subseteq heap \cup {None}
    /\ \A kind \in Kinds : Pooled(kind) \subseteq heap

\* What somebody still knows of.
Known ==
    (UNION {Pooled(kind) : kind \in Kinds})
    \cup {helo_name, name, text, value, mb_list, list.at} \cup DOMAIN list.cells \cup ToSet(parsed)
    \cup UNION {Texts(e) \cup {e.node} : e \in held \cup {event}}
Lost == heap \ Known

\* The pools are whole after any failures: each is a chain without repetition
\* as long as its count (mem_pool.c:76-110), no object is in two pools, and none
\* in a pool is still in use, where its first word would be overwritten.
InUse == {helo_name, text} \cup UNION {{e.node, e.text} : e \in held \cup {event}}
PoolsSound ==
    /\ \A kind \in Kinds : Sound(pools[kind]) /\ Pooled(kind) \cap InUse = {}
    /\ \A k1, k2 \in Kinds : k1 # k2 => Pooled(k1) \cap Pooled(k2) = {}

\* The list holds the mailboxes in the order of the text, read from either end
\* (clist.c:137), so that the only one is the first (path.c:231).
ListInOrder ==
    /\ Foreach(list) = parsed /\ Backwards(list) = Reverse(parsed)
    /\ list.number = Len(parsed)

\* Whatever fails, in whatever order, no block is freed twice and no NULL read
\* but in three places: a HELO whose analysis fails (helo.re:360), an empty user
\* name (user.re:200), a path that fails behind its list (path.c:249).
FreedOnce ==
    at = "undefined" =>
       \/ cmd = "HELO" /\ event.name # None
       \/ cmd = "USER" /\ text = None
       \/ cmd \in Paths /\ mb_list # None

\* No step loses memory but three: a greeting over an earlier one (helo.re:315,
\* ehlo.re:1052), a user name without an event (user.re:236), and an EHLO whose
\* analysis fails (ehlo.re:1108).
LosesOnly ==
    \/ cmd \in Greetings /\ at = "name" /\ Lost' \ Lost \subseteq {helo_name}
    \/ cmd = "USER" /\ at = "event" /\ Lost' \ Lost \subseteq {text}
    \/ cmd = "EHLO" /\ at = "free" /\ Lost' \ Lost \subseteq {event.name}
    \/ Lost' \subseteq Lost
LostOnly == [][LosesOnly]_vars
=============================================================================
