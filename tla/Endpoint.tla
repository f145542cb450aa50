------------------------------ MODULE Endpoint ------------------------------
(***************************************************************************)
(* What a request goes through before it reaches the provider              *)
(* (src/src/handlers/messages.rs, shell.rs, title.rs and openai/mod.rs):   *)
(* validation, the policy of its key, the verdict on shell delegation, the *)
(* wait for a place among the concurrent requests, and the answers the     *)
(* bridge gives itself.                                                    *)
(*                                                                         *)
(* A prompt that starts with "!" is answered by a call of the client's own *)
(* shell tool under an id the bridge minted, a ticket; the client sends    *)
(* the result back and the bridge echoes it.  Tickets live in memory, for  *)
(* a while, in a bounded store.  The client may leave the call out of the  *)
(* history it sends with the result, and it may send a request again.      *)
(***************************************************************************)
EXTENDS Naturals, SequencesExt

CONSTANTS
  Requests, \* requests the bridge works on at a time
  Tickets,  \* ids it may mint: bounds the delegations
  Capacity, \* SHELL_TICKET_CAPACITY
  Places,   \* max_concurrent_requests
  NoTicket

ASSUME EndpointAssumption ==
  /\ Capacity \in Nat \ {0}
  /\ NoTicket \notin Tickets

VARIABLES
  policy,  \* shell_policy of the configuration
  tickets, \* ShellDelegations.tickets, oldest first
  lapsed,  \* how many of them are older than TICKET_TTL
  minted,  \* the ids given out so far
  known,   \* those of them a client has received
  req      \* the requests

vars == <<policy, tickets, lapsed, minted, known, req>>

BangCommands == {"none", "listed", "unlisted"}

Payload ==
  [api : {"messages", "openai"},
   sound : BOOLEAN,              \* the body is well-formed
   allowed : BOOLEAN,            \* the key's policy, shell aside, admits it
   shell : BOOLEAN,              \* permissions.shell, TRUE without a key
   title : BOOLEAN,              \* the client asks for a session title
   command : BangCommands,           \* the last user message starts with "!"
   result : Tickets \cup {NoTicket}, \* the trailing message has its result
   history : BOOLEAN]            \* the call of that result precedes it

Phases == {"arrived", "waiting", "upstream",
           "refused", "titled", "delegated", "echoed"}

Plain ==
  [api |-> "messages", sound |-> TRUE, allowed |-> TRUE, shell |-> TRUE,
   title |-> FALSE, command |-> "none", result |-> NoTicket, history |-> FALSE]

\* vouched, pending: the ticket was live when the request was validated, and
\* when its fate was decided.
Idle == [phase |-> "idle", body |-> Plain, ticket |-> NoTicket,
         vouched |-> FALSE, pending |-> FALSE]

TypeOK ==
  /\ policy \in {"disabled", "allowlist", "unrestricted"}
  /\ tickets \in Seq(Tickets) /\ Len(tickets) <= Capacity
  /\ IsInjective(tickets)
  /\ lapsed \in 0..Len(tickets)
  /\ ToSet(tickets) \subseteq minted /\ known \subseteq minted
  /\ minted \subseteq Tickets
  /\ req \in [Requests -> [phase : Phases \cup {"idle"}, body : Payload,
                           ticket : Tickets \cup {NoTicket},
                           vouched : BOOLEAN, pending : BOOLEAN]]

Init ==
  /\ policy \in {"disabled", "allowlist", "unrestricted"}
  /\ tickets = <<>> /\ lapsed = 0 /\ minted = {} /\ known = {}
  /\ req = [r \in Requests |-> Idle]

-----------------------------------------------------------------------------
(* The tickets.                                                            *)

Live(t) == t \in ToSet(SubSeq(tickets, lapsed + 1, Len(tickets)))

\* Faulty: a ticket may be spent again.
ConsumeNothing(t) ==
  UNCHANGED <<tickets, lapsed>>

\* consume takes the ticket out of the store, expired or not.
Consume(t) ==
  IF t \in ToSet(tickets)
  THEN \E i \in DOMAIN tickets :
         /\ tickets[i] = t
         /\ tickets' = RemoveAt(tickets, i)
         /\ lapsed' = IF i <= lapsed THEN lapsed - 1 ELSE lapsed
  ELSE UNCHANGED <<tickets, lapsed>>

\* issue first drops what has expired, and the oldest when the store is full.
Issue(t) ==
  LET young == SubSeq(tickets, lapsed + 1, Len(tickets))
      kept  == IF Len(young) >= Capacity THEN Tail(young) ELSE young
  IN  /\ t \in Tickets \ minted
      /\ minted' = minted \cup {t}
      /\ tickets' = Append(kept, t) /\ lapsed' = 0

TicketsKept == UNCHANGED <<tickets, lapsed, minted>>

Expire ==
  /\ lapsed < Len(tickets) /\ lapsed' = lapsed + 1
  /\ UNCHANGED <<policy, tickets, minted, known, req>>

-----------------------------------------------------------------------------
(* What clients send.                                                      *)

OpenAi(a) == [Plain EXCEPT !.api = "openai", !.allowed = a]
Says(c, s) == [Plain EXCEPT !.command = c, !.shell = s]
Returns(t, h, c, s) ==
  [Plain EXCEPT !.result = t, !.history = h, !.command = c, !.shell = s]

Bodies ==
  {Plain, [Plain EXCEPT !.sound = FALSE], [Plain EXCEPT !.title = TRUE],
   [Plain EXCEPT !.allowed = FALSE]}
  \cup {OpenAi(a) : a \in BOOLEAN}
  \cup {Says(c, s) : c \in BangCommands \ {"none"}, s \in BOOLEAN}
  \cup {Returns(t, h, c, s) :
          t \in known, h \in BOOLEAN, c \in {"none", "unlisted"}, s \in BOOLEAN}

Goes(r, phase) == req' = [req EXCEPT ![r].phase = phase]

-----------------------------------------------------------------------------
(* Before the wait: nothing here takes a place or spends a ticket.         *)

\* validate_messages_request: the body is well-formed, and each result in it
\* answers a call of the history or a live ticket.
Answers(p) == p.result = NoTicket \/ p.history \/ Live(p.result)

Arrive(r, p) ==
  /\ req[r].phase = "idle"
  /\ req' = [req EXCEPT ![r] =
       [Idle EXCEPT !.phase = IF ~p.sound THEN "refused"
                                ELSE IF p.api = "openai" THEN "waiting"
                                ELSE IF Answers(p) THEN "arrived" ELSE "refused",
                    !.body = p, !.vouched = Live(p.result)]]
  /\ TicketsKept /\ UNCHANGED <<policy, known>>

\* ShellPolicy::check
Permits(command) ==
  policy = "unrestricted" \/ (policy = "allowlist" /\ command = "listed")

\* ensure_shell_allowed
ShellAllowed(p) == policy # "disabled" /\ p.shell

\* Faulty: only the key's permission is looked at before the wait.
DoomedByKey(p) == p.command # "none" /\ ~p.shell

\* shell_admission_rejection: a command of a key without the permission; a
\* live ticket, judged as the echo will be; any other command.
Doomed(p) ==
  \/ p.command # "none" /\ ~p.shell
  \/ IF Live(p.result)
     THEN ~ShellAllowed(p)
     ELSE p.command # "none" /\ ~Permits(p.command)

Admit(r) ==
  /\ req[r].phase = "arrived"
  /\ LET p == req[r].body IN
     req' = [req EXCEPT
       ![r].phase = IF p.allowed /\ ~Doomed(p) THEN "waiting" ELSE "refused",
       ![r].pending = Live(p.result)]
  /\ TicketsKept /\ UNCHANGED <<policy, known>>

-----------------------------------------------------------------------------
(* With a place.                                                           *)

\* The place goes with the body of a forwarded answer; an answer of the
\* bridge itself gives it back at once.
Taken == {r \in Requests : req[r].phase = "upstream"}

Placed(r) == req[r].phase = "waiting" /\ Cardinality(Taken) < Places

\* handle_chat_completions applies the key's policy only now.
ServeOpenAi(r) ==
  /\ Placed(r) /\ req[r].body.api = "openai"
  /\ Goes(r, IF req[r].body.allowed THEN "upstream" ELSE "refused")
  /\ TicketsKept /\ UNCHANGED <<policy, known>>

Served(r) == Placed(r) /\ req[r].body.api = "messages" /\ UNCHANGED <<policy, known>>

ServeTitle(r) ==
  /\ Served(r) /\ req[r].body.title
  /\ Goes(r, "titled") /\ TicketsKept

\* The result of a live ticket is shown to the user, and nothing else is done
\* for the request that brought it.
Echo(r) ==
  LET p == req[r].body IN
  /\ Served(r) /\ ~p.title
  /\ Live(p.result)
  /\ Consume(p.result)
  /\ Goes(r, IF ShellAllowed(p) THEN "echoed" ELSE "refused")
  /\ UNCHANGED minted

\* A result that is not a live ticket's is left to the provider.
NoEcho(r) ==
  /\ Served(r) /\ ~req[r].body.title
  /\ ~Live(req[r].body.result)

Delegate(r, t) ==
  LET p == req[r].body IN
  /\ NoEcho(r) /\ p.command # "none"
  /\ ShellAllowed(p) /\ Permits(p.command)
  /\ Issue(t)
  /\ req' = [req EXCEPT ![r].phase = "delegated", ![r].ticket = t]

RefuseCommand(r) ==
  LET p == req[r].body IN
  /\ NoEcho(r) /\ p.command # "none"
  /\ ~(ShellAllowed(p) /\ Permits(p.command))
  /\ Consume(p.result) /\ UNCHANGED minted
  /\ Goes(r, "refused")

Forward(r) ==
  /\ NoEcho(r) /\ req[r].body.command = "none"
  /\ Consume(req[r].body.result) /\ UNCHANGED minted
  /\ Goes(r, "upstream")

\* The answer reaches the client; a delegation tells it the ticket.
Deliver(r) ==
  /\ req[r].phase \in Phases \ {"arrived", "waiting"}
  /\ known' = known \cup ({req[r].ticket} \ {NoTicket})
  /\ req' = [req EXCEPT ![r] = Idle]
  /\ TicketsKept /\ UNCHANGED policy

\* The connection is lost, at any time: the client cannot know how far the
\* request got.
Disconnect(r) ==
  /\ req[r].phase # "idle"
  /\ req' = [req EXCEPT ![r] = Idle]
  /\ TicketsKept /\ UNCHANGED <<policy, known>>

\* The server is restarted; its clients are not.
Restart ==
  /\ tickets' = <<>> /\ lapsed' = 0
  /\ req' = [r \in Requests |-> Idle]
  /\ UNCHANGED <<policy, minted, known>>

Next ==
  \/ \E r \in Requests :
       \/ \E p \in Bodies : Arrive(r, p)
       \/ Admit(r)
       \/ ServeOpenAi(r)
       \/ ServeTitle(r)
       \/ Echo(r)
       \/ \E t \in Tickets : Delegate(r, t)
       \/ RefuseCommand(r)
       \/ Forward(r)
       \/ Deliver(r)
       \/ Disconnect(r)
  \/ Expire
  \/ Restart

Spec == Init /\ [][Next]_vars

-----------------------------------------------------------------------------
(* Properties.                                                             *)

Becomes(r, phase) == req[r].phase # phase /\ req'[r].phase = phase

\* "rejection must not spend single-use tickets": a live ticket is spent by
\* the one answer that shows its result, unless newer ones push it out or the
\* server goes down.
TicketsSpentByEchoes ==
  [][/\ \A r \in Requests :
          Becomes(r, "echoed") => /\ Live(req[r].body.result)
                                  /\ req[r].body.result \notin ToSet(tickets')
     /\ \A t \in Tickets :
          Live(t) /\ t \notin ToSet(tickets') =>
            \/ \E r \in Requests : Becomes(r, "echoed") /\ req[r].body.result = t
            \/ Len(tickets) = Capacity /\ minted' # minted
            \/ Restart]_vars

\* What was decided when the request was validated holds after its wait for a
\* place: the verdict on shell delegation "reproduces exactly the verdicts"
\* try_handle comes to then, and a result whose call is not in the history of
\* the request is not forwarded, except when the ticket that spoke for the
\* request was lost while it waited: to the same request sent twice, to age,
\* to newer tickets.
AdmissionDecides ==
  [][\A r \in Requests :
       LET p == req[r].body IN
       req[r].phase = "waiting" =>
         /\ Becomes(r, "refused") /\ p.api = "messages"
              => req[r].pending /\ ~Live(p.result)
         /\ Becomes(r, "upstream") /\ p.result # NoTicket /\ ~p.history
              => req[r].vouched /\ ~Live(p.result)]_vars

=============================================================================
