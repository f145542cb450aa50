--------------------------- MODULE ServicesProofs ---------------------------
(***************************************************************************)
(* Theorems about what a request goes through before the provider, for any *)
(* number of requests, of tickets and of places; about the self-update,    *)
(* for any number of updates; about the models that answer a client; about *)
(* the search for a model, for any limits; and about the settings, for any *)
(* number of changes.  ContentProofs is about the other parts.             *)
(***************************************************************************)
EXTENDS MCServices, FiniteSetTheorems, FunctionTheorems, SequenceTheorems, TLAPS

(***************************************************************************)
(* Requests.  The verdict on one is reached before it waits and again      *)
(* after, while other requests spend tickets, age and newer tickets take   *)
(* them away, and the store is cleared by a restart.  The two agree        *)
(* because a ticket that is not live never becomes live again: an id is    *)
(* minted once, and what a request carries was minted before it was sent.  *)
(***************************************************************************)

\* The tickets of the store that have not expired, by their place.
LiveAt(t) == \E i \in DOMAIN tickets : lapsed < i /\ tickets[i] = t

Stored(t) == \E i \in DOMAIN tickets : tickets[i] = t

StoreInv ==
  /\ tickets \in Seq(Tickets)
  /\ Len(tickets) <= Capacity
  /\ \A i, j \in DOMAIN tickets : tickets[i] = tickets[j] => i = j
  /\ lapsed \in 0..Len(tickets)
  /\ \A i \in DOMAIN tickets : tickets[i] \in minted
  /\ known \subseteq minted
  /\ minted \subseteq Tickets

Request ==
  [phase : Phases \cup {"idle"}, body : Payload,
   ticket : Tickets \cup {NoTicket}, vouched : BOOLEAN, pending : BOOLEAN]

FieldsInv ==
  /\ policy \in {"disabled", "allowlist", "unrestricted"}
  /\ req \in [Requests -> Request]

\* Who carries a ticket had it from the bridge.
Carried(q) ==
  /\ q.body.result \in minted \cup {NoTicket}
  /\ q.ticket \in minted \cup {NoTicket}
  /\ q.body.api = "openai" => q.body.result = NoTicket

\* What validation established about a result whose call is missing.
Vouched(q) ==
  q.phase \in {"arrived", "waiting"} /\ q.body.api = "messages"
    => q.body.result = NoTicket \/ q.body.history \/ q.vouched

\* What the verdict before the wait says about the one after it.
Decided(q) ==
  q.phase = "waiting" /\ q.body.api = "messages"
    => IF q.pending
       THEN ShellAllowed(q.body)
       ELSE /\ ~LiveAt(q.body.result)
            /\ q.body.command # "none" => q.body.shell /\ Permits(q.body.command)

RequestInv == \A r \in Requests : Carried(req[r]) /\ Vouched(req[r]) /\ Decided(req[r])

EndpointInv == StoreInv /\ FieldsInv /\ RequestInv

-----------------------------------------------------------------------------
(* The store.                                                              *)

\* The tickets that are still young.
LEMMA LiveIsPlaced ==
  ASSUME StoreInv, NEW t
  PROVE  Live(t) <=> LiveAt(t)
<1> DEFINE young == SubSeq(tickets, lapsed + 1, Len(tickets))
<1>1. /\ tickets \in Seq(Tickets) /\ lapsed \in 0..Len(tickets)
      /\ Len(tickets) \in Nat /\ lapsed \in Nat
  BY DEF StoreInv
<1>2. /\ young \in Seq(Tickets)
      /\ Len(young) = Len(tickets) - lapsed
      /\ \A i \in 1..Len(young) : young[i] = tickets[lapsed + i]
  BY <1>1
<1> HIDE DEF young
<1>3. ToSet(young) = {young[i] : i \in 1..Len(young)}
  BY <1>2 DEF ToSet
<1>4. ASSUME NEW i \in DOMAIN tickets, lapsed < i, tickets[i] = t
      PROVE  t \in ToSet(young)
  <2>1. i - lapsed \in 1..Len(young) /\ lapsed + (i - lapsed) = i
    BY <1>1, <1>2, <1>4
  <2> QED BY <2>1, <1>2, <1>3, <1>4
<1>5. ASSUME NEW i \in 1..Len(young), young[i] = t
      PROVE  LiveAt(t)
  <2>1. lapsed + i \in DOMAIN tickets /\ lapsed < lapsed + i
    BY <1>1, <1>2
  <2> QED BY <2>1, <1>2, <1>5 DEF LiveAt
<1>6. Live(t) <=> t \in ToSet(young)
  BY DEF Live, young
<1> QED BY <1>3, <1>4, <1>5, <1>6 DEF LiveAt

\* What is stored, as a set.
LEMMA StoredIsInStore ==
  ASSUME NEW Elem, NEW s \in Seq(Elem), NEW t
  PROVE  t \in ToSet(s) <=> \E i \in DOMAIN s : s[i] = t
BY DEF ToSet

\* A sequence without what was at i.
LEMMA Removal ==
  ASSUME NEW Elem, NEW s \in Seq(Elem), NEW i \in DOMAIN s
  PROVE  /\ RemoveAt(s, i) \in Seq(Elem)
         /\ Len(RemoveAt(s, i)) = Len(s) - 1
         /\ \A j \in DOMAIN RemoveAt(s, i) :
              RemoveAt(s, i)[j] = IF j < i THEN s[j] ELSE s[j + 1]
<1> DEFINE before == SubSeq(s, 1, i - 1)
           after  == SubSeq(s, i + 1, Len(s))
<1>1. i \in 1..Len(s) /\ Len(s) \in Nat
  OBVIOUS
<1>2. /\ before \in Seq(Elem) /\ Len(before) = i - 1
      /\ \A j \in 1..(i - 1) : before[j] = s[j]
  BY <1>1
<1>3. /\ after \in Seq(Elem) /\ Len(after) = Len(s) - i
      /\ \A j \in 1..(Len(s) - i) : after[j] = s[i + j]
  BY <1>1
<1>4. RemoveAt(s, i) = before \o after
  BY DEF RemoveAt
<1> HIDE DEF before, after
<1> DEFINE both == before \o after
<1>5. /\ both \in Seq(Elem)
      /\ Len(both) = Len(before) + Len(after)
      /\ \A j \in 1..(Len(before) + Len(after)) :
           both[j] = IF j <= Len(before) THEN before[j]
                     ELSE after[j - Len(before)]
  BY <1>2, <1>3, ConcatProperties
<1> HIDE DEF both
<1>6. /\ Len(both) = Len(s) - 1
      /\ DOMAIN both = 1..(Len(s) - 1)
  BY <1>1, <1>2, <1>3, <1>5
<1>7. ASSUME NEW j \in 1..(Len(s) - 1)
      PROVE  both[j] = IF j < i THEN s[j] ELSE s[j + 1]
  <2>1. CASE j < i
    <3>1. j \in 1..(i - 1)
      BY <1>1, <2>1
    <3>2. j \in 1..(Len(before) + Len(after)) /\ j <= Len(before)
      BY <1>1, <1>2, <1>3, <2>1
    <3>3. both[j] = before[j]
      BY <1>5, <3>2
    <3> QED BY <1>2, <2>1, <3>1, <3>3
  <2>2. CASE ~ (j < i)
    <3>1. j - (i - 1) \in 1..(Len(s) - i) /\ i + (j - (i - 1)) = j + 1
      BY <1>1, <2>2
    <3>2. j \in 1..(Len(before) + Len(after)) /\ ~ (j <= Len(before))
      BY <1>1, <1>2, <1>3, <2>2
    <3>3. both[j] = after[j - (i - 1)]
      BY <1>2, <1>5, <3>2
    <3>4. after[j - (i - 1)] = s[i + (j - (i - 1))]
      BY <1>3, <3>1
    <3> QED BY <2>2, <3>1, <3>3, <3>4
  <2> QED BY <2>1, <2>2
<1>8. RemoveAt(s, i) = both
  BY <1>4 DEF both
<1> QED BY <1>5, <1>6, <1>7, <1>8

\* What consume does: nothing but that the ticket is not there any more.
LEMMA Consumption ==
  ASSUME StoreInv, NEW t, Consume(t), UNCHANGED <<minted, known>>
  PROVE  /\ StoreInv'
         /\ \A u : LiveAt(u)' <=> LiveAt(u) /\ u # t
         /\ \A u : Stored(u)' <=> Stored(u) /\ u # t
<1>1. /\ tickets \in Seq(Tickets)
      /\ Len(tickets) \in Nat /\ DOMAIN tickets = 1..Len(tickets)
      /\ lapsed \in 0..Len(tickets) /\ Len(tickets) <= Capacity /\ Capacity \in Nat
      /\ \A k, j \in DOMAIN tickets : tickets[k] = tickets[j] => k = j
      /\ \A k \in DOMAIN tickets : tickets[k] \in minted
  BY EndpointAssumption DEF StoreInv
<1>2. CASE ~Stored(t)
  <2>1. UNCHANGED <<tickets, lapsed>>
    BY <1>1, <1>2, StoredIsInStore DEF Consume, Stored
  <2> QED BY <1>2, <2>1 DEF StoreInv, LiveAt, Stored
<1>3. CASE Stored(t)
  <2>1. PICK i \in DOMAIN tickets :
          /\ tickets[i] = t
          /\ tickets' = RemoveAt(tickets, i)
          /\ lapsed' = IF i <= lapsed THEN lapsed - 1 ELSE lapsed
    BY <1>1, <1>3, StoredIsInStore DEF Consume, Stored
  <2>2. /\ tickets' \in Seq(Tickets)
        /\ Len(tickets') = Len(tickets) - 1
        /\ DOMAIN tickets' = 1..(Len(tickets) - 1)
        /\ \A j \in 1..(Len(tickets) - 1) :
             tickets'[j] = IF j < i THEN tickets[j] ELSE tickets[j + 1]
    <3>0. tickets \in Seq(Tickets) /\ i \in DOMAIN tickets
      BY <1>1, <2>1
    <3>1. /\ RemoveAt(tickets, i) \in Seq(Tickets)
          /\ Len(RemoveAt(tickets, i)) = Len(tickets) - 1
          /\ \A j \in DOMAIN RemoveAt(tickets, i) :
               RemoveAt(tickets, i)[j] = IF j < i THEN tickets[j] ELSE tickets[j + 1]
      BY <3>0, Removal, Zenon
    <3>2. DOMAIN RemoveAt(tickets, i) = 1..(Len(tickets) - 1)
      BY <1>1, <3>1
    <3> QED BY <2>1, <3>1, <3>2
  <2>3. \A k \in DOMAIN tickets' :
          LET old == IF k < i THEN k ELSE k + 1
          IN  old \in DOMAIN tickets /\ old # i /\ tickets'[k] = tickets[old]
    BY <1>1, <2>1, <2>2
  <2>4. \A k \in DOMAIN tickets \ {i} :
          LET new == IF k < i THEN k ELSE k - 1
          IN  /\ new \in DOMAIN tickets' /\ tickets'[new] = tickets[k]
              /\ lapsed' < new <=> lapsed < k
    BY <1>1, <2>1, <2>2
  <2>5. \A k \in DOMAIN tickets' :
          lapsed' < k <=> lapsed < (IF k < i THEN k ELSE k + 1)
    BY <1>1, <2>1, <2>2
  <2>6. lapsed' \in 0..Len(tickets')
    BY <1>1, <2>1, <2>2
  <2>7. \A k, j \in DOMAIN tickets' : tickets'[k] = tickets'[j] => k = j
    <3> SUFFICES ASSUME NEW k \in DOMAIN tickets', NEW j \in DOMAIN tickets',
                        tickets'[k] = tickets'[j]
                 PROVE  k = j
      OBVIOUS
    <3>1. (IF k < i THEN k ELSE k + 1) = (IF j < i THEN j ELSE j + 1)
      BY <1>1, <2>3
    <3> QED BY <1>1, <2>1, <2>2, <3>1
  <2>8. StoreInv'
    BY <1>1, <2>2, <2>3, <2>6, <2>7 DEF StoreInv
  <2>9. ASSUME NEW u PROVE Stored(u)' <=> Stored(u) /\ u # t
    <3>1. ASSUME NEW k \in DOMAIN tickets', tickets'[k] = u
          PROVE  Stored(u) /\ u # t
      BY <1>1, <2>1, <2>3, <3>1 DEF Stored
    <3>2. ASSUME NEW k \in DOMAIN tickets, tickets[k] = u, u # t
          PROVE  Stored(u)'
      BY <1>1, <2>1, <2>4, <3>2 DEF Stored
    <3> QED BY <3>1, <3>2 DEF Stored
  <2>10. ASSUME NEW u PROVE LiveAt(u)' <=> LiveAt(u) /\ u # t
    <3>1. ASSUME NEW k \in DOMAIN tickets', lapsed' < k, tickets'[k] = u
          PROVE  LiveAt(u) /\ u # t
      BY <1>1, <2>1, <2>3, <2>5, <3>1 DEF LiveAt
    <3>2. ASSUME NEW k \in DOMAIN tickets, lapsed < k, tickets[k] = u, u # t
          PROVE  LiveAt(u)'
      BY <1>1, <2>1, <2>4, <3>2 DEF LiveAt
    <3> QED BY <3>1, <3>2 DEF LiveAt
  <2> QED BY <2>8, <2>9, <2>10
<1> QED BY <1>2, <1>3

\* What issue does: one ticket is new; what it takes from the store is
\* expired, or the oldest of a full one.
LEMMA Issuance ==
  ASSUME StoreInv, NEW t, Issue(t), UNCHANGED known
  PROVE  /\ StoreInv'
         /\ t \in minted' /\ minted \subseteq minted' /\ minted' # minted
         /\ \A u : LiveAt(u)' => LiveAt(u) \/ u = t
         /\ \A u : LiveAt(u) /\ ~Stored(u)' => Len(tickets) = Capacity
<1> DEFINE young == SubSeq(tickets, lapsed + 1, Len(tickets))
           kept  == IF Len(young) >= Capacity THEN Tail(young) ELSE young
<1>0. /\ tickets \in Seq(Tickets)
      /\ Len(tickets) \in Nat /\ DOMAIN tickets = 1..Len(tickets)
      /\ lapsed \in 0..Len(tickets) /\ lapsed \in Nat /\ lapsed <= Len(tickets)
  BY DEF StoreInv
<1>c. Len(tickets) <= Capacity /\ Capacity \in Nat /\ Capacity >= 1
  BY EndpointAssumption DEF StoreInv
<1>1. /\ \A k, j \in DOMAIN tickets : tickets[k] = tickets[j] => k = j
      /\ \A k \in DOMAIN tickets : tickets[k] \in minted
      /\ known \subseteq minted /\ minted \subseteq Tickets
  BY DEF StoreInv
<1>2. /\ t \in Tickets \ minted
      /\ minted' = minted \cup {t}
      /\ tickets' = Append(kept, t) /\ lapsed' = 0
      /\ known' = known
  BY DEF Issue
<1>3. /\ young \in Seq(Tickets)
      /\ Len(young) = Len(tickets) - lapsed
      /\ \A i \in 1..Len(young) : young[i] = tickets[lapsed + i]
  <2> DEFINE first == lapsed + 1
             newest  == Len(tickets)
  <2>1. first \in Int /\ newest \in Int /\ \A i \in first..newest : tickets[i] \in Tickets
    <3>1. \A i \in first..newest : i \in 1..Len(tickets)
      BY <1>0
    <3> QED BY <1>0, <3>1, ElementOfSeq
  <2>2. newest - first + 1 = Len(tickets) - lapsed
    <3>1. lapsed \in Nat /\ Len(tickets) \in Nat
      BY <1>0
    <3> QED BY <3>1
  <2>a. first <= newest \/ Len(tickets) - lapsed = 0
    <3>1. lapsed \in Nat /\ Len(tickets) \in Nat /\ lapsed <= Len(tickets)
      BY <1>0
    <3> QED BY <3>1
  <2>b. \A i \in Int : first + i - 1 = lapsed + i
    <3>1. lapsed \in Int
      BY <1>0
    <3> QED BY <3>1
  <2> HIDE DEF first, newest
  <2>3. /\ SubSeq(tickets, first, newest) \in Seq(Tickets)
        /\ Len(SubSeq(tickets, first, newest)) = IF first <= newest THEN newest - first + 1 ELSE 0
        /\ \A i \in 1..(newest - first + 1) : SubSeq(tickets, first, newest)[i] = tickets[first + i - 1]
    BY <2>1, SubSeqProperties
  <2>4. young = SubSeq(tickets, first, newest)
    BY DEF first, newest
  <2> HIDE DEF young
  <2>5. Len(young) = Len(tickets) - lapsed
    <3>1. CASE first <= newest
      BY <2>2, <2>3, <2>4, <3>1
    <3>2. CASE ~ (first <= newest)
      BY <2>a, <2>3, <2>4, <3>2
    <3> QED BY <3>1, <3>2
  <2>6. ASSUME NEW i \in 1..Len(young) PROVE young[i] = tickets[lapsed + i]
    <3>1. i \in 1..(newest - first + 1)
      BY <2>2, <2>5
    <3>2. first + i - 1 = lapsed + i
      BY <2>b
    <3> QED BY <2>3, <2>4, <3>1, <3>2
  <2> QED BY <2>3, <2>4, <2>5, <2>6
<1> HIDE DEF young
\* How many of the oldest are gone.
<1> DEFINE gone == IF Len(young) >= Capacity THEN lapsed + 1 ELSE lapsed
<1>4. /\ gone \in 0..Len(tickets)
      /\ gone > lapsed => Len(tickets) = Capacity
      /\ gone >= lapsed
      /\ Len(tickets) - gone < Capacity
      /\ gone \in Nat
  <2>1. Len(tickets) \in Nat /\ lapsed \in Nat /\ lapsed <= Len(tickets)
    BY <1>0
  <2>2. Len(young) = Len(tickets) - lapsed
    BY <1>3
  <2>3. CASE Len(young) >= Capacity
    <3>1. gone = lapsed + 1
      BY <2>3
    <3> HIDE DEF gone
    <3> QED BY <1>c, <2>1, <2>2, <2>3, <3>1
  <2>4. CASE ~ (Len(young) >= Capacity)
    <3>1. gone = lapsed
      BY <2>4
    <3> HIDE DEF gone
    <3> QED BY <1>c, <2>1, <2>2, <2>4, <3>1
  <2> QED BY <2>3, <2>4
<1>5. /\ kept \in Seq(Tickets)
      /\ Len(kept) = Len(tickets) - gone
      /\ \A i \in 1..Len(kept) : kept[i] = tickets[gone + i]
  <2>1. CASE Len(young) >= Capacity
    <3>1. young # <<>> /\ kept = Tail(young) /\ gone = lapsed + 1
      BY <1>0, <1>c, <1>3, <2>1
    <3>2. /\ Tail(young) \in Seq(Tickets)
          /\ Len(Tail(young)) = Len(young) - 1
          /\ \A i \in 1..(Len(young) - 1) : Tail(young)[i] = young[i + 1]
      BY <1>3, <3>1
    <3>3. ASSUME NEW i \in 1..(Len(young) - 1)
          PROVE  Tail(young)[i] = tickets[gone + i]
      <4>1. i + 1 \in 1..Len(young) /\ lapsed + (i + 1) = gone + i
        BY <1>0, <1>3, <3>1
      <4> QED BY <1>3, <3>2, <4>1
    <3> HIDE DEF kept, gone
    <3>4. Len(Tail(young)) = Len(tickets) - gone
      <4>1. Len(tickets) \in Nat /\ lapsed \in Nat
        BY <1>0
      <4>2. /\ Len(Tail(young)) = Len(young) - 1
            /\ Len(young) = Len(tickets) - lapsed
            /\ gone = lapsed + 1
        BY <1>3, <3>1, <3>2
      <4> QED BY <4>1, <4>2
    <3> QED BY <1>3, <3>1, <3>2, <3>3, <3>4
  <2>2. CASE ~ (Len(young) >= Capacity)
    BY <1>0, <1>3, <2>2
  <2> QED BY <2>1, <2>2
<1> HIDE DEF kept, gone
<1>6. /\ tickets' \in Seq(Tickets)
      /\ Len(tickets') = Len(tickets) - gone + 1
      /\ DOMAIN tickets' = 1..(Len(tickets) - gone + 1)
      /\ tickets'[Len(tickets) - gone + 1] = t
      /\ \A i \in 1..(Len(tickets) - gone) : tickets'[i] = tickets[gone + i]
  <2>1. /\ Append(kept, t) \in Seq(Tickets)
        /\ Len(Append(kept, t)) = Len(kept) + 1
        /\ Append(kept, t)[Len(kept) + 1] = t
        /\ \A i \in 1..Len(kept) : Append(kept, t)[i] = kept[i]
    BY <1>2, <1>5
  <2> QED BY <1>0, <1>2, <1>4, <1>5, <2>1
<1>7. \A i \in 1..(Len(tickets) - gone) : gone + i \in DOMAIN tickets
  BY <1>0, <1>4
<1>8. \A i \in DOMAIN tickets' :
        i = Len(tickets) - gone + 1 \/ i \in 1..(Len(tickets) - gone)
  BY <1>0, <1>4, <1>6
<1>9. \A i \in DOMAIN tickets' : tickets'[i] \in minted'
  BY <1>0, <1>1, <1>2, <1>6, <1>7, <1>8
<1>10. \A k, j \in DOMAIN tickets' : tickets'[k] = tickets'[j] => k = j
  <2> SUFFICES ASSUME NEW k \in DOMAIN tickets', NEW j \in DOMAIN tickets',
                      tickets'[k] = tickets'[j]
               PROVE  k = j
    OBVIOUS
  <2>1. CASE k \in 1..(Len(tickets) - gone) /\ j \in 1..(Len(tickets) - gone)
    <3>1. gone + k = gone + j
      BY <1>1, <1>6, <1>7, <2>1
    <3> QED BY <1>0, <1>4, <2>1, <3>1
  <2>2. CASE k = Len(tickets) - gone + 1 /\ j \in 1..(Len(tickets) - gone)
    BY <1>1, <1>2, <1>6, <1>7, <2>2
  <2>3. CASE j = Len(tickets) - gone + 1 /\ k \in 1..(Len(tickets) - gone)
    BY <1>1, <1>2, <1>6, <1>7, <2>3
  <2> QED BY <1>8, <2>1, <2>2, <2>3
<1>11. lapsed' \in 0..Len(tickets') /\ Len(tickets') <= Capacity
  <2>1. Len(tickets') = Len(tickets) - gone + 1 /\ lapsed' = 0
    BY <1>2, <1>6
  <2>2. /\ Len(tickets) \in Nat /\ gone \in Nat /\ gone <= Len(tickets)
        /\ Len(tickets) - gone < Capacity
    BY <1>0, <1>4
  <2>3. Len(tickets') \in Nat /\ Len(tickets') <= Capacity
    BY <1>c, <2>1, <2>2
  <2> QED BY <2>1, <2>3
<1>12. StoreInv'
  BY <1>0, <1>c, <1>1, <1>2, <1>6, <1>9, <1>10, <1>11 DEF StoreInv
<1>13. ASSUME NEW u, LiveAt(u)' PROVE LiveAt(u) \/ u = t
  <2>1. PICK i \in DOMAIN tickets' : tickets'[i] = u
    BY <1>13 DEF LiveAt
  <2>2. CASE i \in 1..(Len(tickets) - gone)
    <3>1. lapsed < gone + i
      BY <1>0, <1>4, <2>2
    <3> QED BY <1>6, <1>7, <2>1, <2>2, <3>1 DEF LiveAt
  <2> QED BY <1>6, <1>8, <2>1, <2>2
<1>14. ASSUME NEW u, LiveAt(u), ~Stored(u)' PROVE Len(tickets) = Capacity
  <2>1. PICK i \in DOMAIN tickets : lapsed < i /\ tickets[i] = u
    BY <1>14 DEF LiveAt
  <2>2. ~ (gone < i)
    <3> SUFFICES ASSUME gone < i PROVE FALSE
      OBVIOUS
    <3>1. i - gone \in 1..(Len(tickets) - gone) /\ gone + (i - gone) = i
      BY <1>0, <1>4
    <3>2. i - gone \in DOMAIN tickets' /\ tickets'[i - gone] = u
      BY <1>0, <1>4, <1>6, <2>1, <3>1
    <3> QED BY <1>14, <3>2 DEF Stored
  <2> QED BY <1>0, <1>4, <2>1, <2>2
<1>15. minted' # minted /\ t \in minted' /\ minted \subseteq minted'
  BY <1>2
<1> QED BY <1>12, <1>13, <1>14, <1>15

\* Nothing becomes live by age.
LEMMA Ageing ==
  ASSUME StoreInv, Expire
  PROVE  /\ StoreInv'
         /\ \A u : LiveAt(u)' => LiveAt(u)
         /\ \A u : Stored(u)' <=> Stored(u)
<1>1. /\ tickets' = tickets /\ lapsed' = lapsed + 1 /\ lapsed < Len(tickets)
      /\ Len(tickets) \in Nat /\ lapsed \in 0..Len(tickets)
      /\ DOMAIN tickets = 1..Len(tickets)
      /\ minted' = minted /\ known' = known
  BY DEF Expire, StoreInv
<1>2. lapsed' \in 0..Len(tickets') /\ \A i \in DOMAIN tickets : lapsed' < i => lapsed < i
  BY <1>1
<1> QED BY <1>1, <1>2 DEF StoreInv, LiveAt, Stored

-----------------------------------------------------------------------------
(* The requests.                                                           *)

\* What every action leaves of the store, for who waits.
NoneRevived ==
  /\ StoreInv'
  /\ minted \subseteq minted'
  /\ policy' = policy
  /\ \A u \in minted \cup {NoTicket} : LiveAt(u)' => LiveAt(u)

LEMMA OnlyTicketsLive ==
  ASSUME StoreInv
  PROVE  ~LiveAt(NoTicket)
BY EndpointAssumption DEF StoreInv, LiveAt

\* A request that does not move keeps what was decided about it.
LEMMA Unmoved ==
  ASSUME RequestInv, NoneRevived, NEW r \in Requests, req'[r] = req[r]
  PROVE  Carried(req[r])' /\ Vouched(req[r])' /\ Decided(req[r])'
<1>1. Carried(req[r]) /\ Vouched(req[r]) /\ Decided(req[r])
  BY DEF RequestInv
<1>2. Carried(req[r])'
  BY <1>1 DEF Carried, NoneRevived
<1>3. Vouched(req[r])'
  BY <1>1 DEF Vouched
<1>4. Decided(req[r])'
  <2>1. LiveAt(req[r].body.result)' => LiveAt(req[r].body.result)
    BY <1>1 DEF Carried, NoneRevived
  <2>2. /\ ShellAllowed(req[r].body)' <=> ShellAllowed(req[r].body)
        /\ Permits(req[r].body.command)' <=> Permits(req[r].body.command)
    BY DEF NoneRevived, ShellAllowed, Permits
  <2> QED BY <1>1, <2>1, <2>2 DEF Decided
<1> QED BY <1>2, <1>3, <1>4

\* One request moves.
LEMMA OneMoves ==
  ASSUME EndpointInv, NoneRevived, NEW r \in Requests, NEW q \in Request,
         req' = [req EXCEPT ![r] = q],
         Carried(req[r])', Vouched(req[r])', Decided(req[r])'
  PROVE  EndpointInv'
<1>1. FieldsInv'
  BY DEF EndpointInv, FieldsInv, NoneRevived
<1>2. \A s \in Requests : s # r => req'[s] = req[s]
  BY DEF EndpointInv, FieldsInv
<1>3. RequestInv'
  BY <1>2, Unmoved DEF EndpointInv, RequestInv
<1> QED BY <1>1, <1>3 DEF EndpointInv, NoneRevived

\* A request is over before or after its wait: nothing is asked of it any more.
LEMMA Over ==
  ASSUME EndpointInv, NoneRevived, NEW r \in Requests, NEW q \in Request,
         req' = [req EXCEPT ![r] = q],
         q.phase \notin {"arrived", "waiting"},
         Carried(req[r])'
  PROVE  EndpointInv'
<1>1. req'[r] = q
  BY DEF EndpointInv, FieldsInv
<1>2. Vouched(req[r])' /\ Decided(req[r])'
  BY <1>1 DEF Vouched, Decided
<1> QED BY <1>2, OneMoves

\* An answer of the bridge, a refusal or the provider.
LEMMA Decision ==
  ASSUME EndpointInv, NoneRevived, NEW r \in Requests,
         NEW phase \in Phases \ {"arrived", "waiting"}, Goes(r, phase)
  PROVE  EndpointInv'
<1> DEFINE q == [req[r] EXCEPT !.phase = phase]
<1>1. req[r] \in Request /\ req \in [Requests -> Request]
  BY DEF EndpointInv, FieldsInv
<1>2. q \in Request /\ q.phase = phase /\ q.body = req[r].body /\ q.ticket = req[r].ticket
  BY <1>1 DEF Request
<1>3. req' = [req EXCEPT ![r] = q]
  BY <1>1 DEF Goes
<1> HIDE DEF q
<1>4. req'[r] = q
  BY <1>1, <1>3
<1>5. Carried(req[r])'
  BY <1>2, <1>4 DEF EndpointInv, RequestInv, Carried, NoneRevived
<1> QED BY <1>2, <1>3, <1>5, Over

\* What a client sends.
LEMMA BodyTyped ==
  ASSUME StoreInv, NEW p \in Bodies
  PROVE  /\ p \in Payload
         /\ p.result \in known \cup {NoTicket}
         /\ p.api = "openai" => p.result = NoTicket
<1>1. known \subseteq Tickets
  BY DEF StoreInv
<1>2. /\ Plain \in Payload /\ Plain.api = "messages" /\ Plain.result = NoTicket
  BY DEF Plain, Payload, BangCommands
<1>3. CASE p \in {Plain, [Plain EXCEPT !.sound = FALSE], [Plain EXCEPT !.title = TRUE],
                  [Plain EXCEPT !.allowed = FALSE]}
  <2>1. CASE p = Plain
    BY <1>2, <2>1
  <2>2. CASE p = [Plain EXCEPT !.sound = FALSE]
    BY <2>2 DEF Plain, Payload, BangCommands
  <2>3. CASE p = [Plain EXCEPT !.title = TRUE]
    BY <2>3 DEF Plain, Payload, BangCommands
  <2>4. CASE p = [Plain EXCEPT !.allowed = FALSE]
    BY <2>4 DEF Plain, Payload, BangCommands
  <2> QED BY <1>3, <2>1, <2>2, <2>3, <2>4
<1>4. CASE \E a \in BOOLEAN : p = OpenAi(a)
  BY <1>4 DEF OpenAi, Plain, Payload, BangCommands
<1>5. CASE \E c \in BangCommands \ {"none"}, b \in BOOLEAN : p = Says(c, b)
  BY <1>5 DEF Says, Plain, Payload, BangCommands
<1>6. CASE \E t \in known, h \in BOOLEAN, c \in {"none", "unlisted"}, b \in BOOLEAN :
             p = Returns(t, h, c, b)
  BY <1>1, <1>6 DEF Returns, Plain, Payload, BangCommands
<1> QED BY <1>3, <1>4, <1>5, <1>6 DEF Bodies

LEMMA IdleTyped ==
  /\ Idle \in Request
  /\ Idle.phase = "idle" /\ Idle.body = Plain /\ Idle.ticket = NoTicket
BY DEF Idle, Request, Plain, Payload, BangCommands, Phases

-----------------------------------------------------------------------------
(* Each action.                                                            *)

LEMMA TicketsKeptRevivesNone ==
  ASSUME EndpointInv, TicketsKept, UNCHANGED <<policy, known>>
  PROVE  NoneRevived
BY DEF EndpointInv, StoreInv, LiveAt, TicketsKept, NoneRevived

LEMMA ConsumptionRevivesNone ==
  ASSUME EndpointInv, NEW t, Consume(t), UNCHANGED <<policy, minted, known>>
  PROVE  NoneRevived
BY Consumption DEF EndpointInv, NoneRevived

LEMMA ArriveKeeps ==
  ASSUME EndpointInv, NEW r \in Requests, NEW p \in Bodies, Arrive(r, p)
  PROVE  EndpointInv'
<1> DEFINE phase == IF ~p.sound THEN "refused"
                    ELSE IF p.api = "openai" THEN "waiting"
                    ELSE IF Answers(p) THEN "arrived" ELSE "refused"
           q == [Idle EXCEPT !.phase = phase, !.body = p, !.vouched = Live(p.result)]
<1>1. /\ req' = [req EXCEPT ![r] = q]
      /\ NoneRevived
      /\ UNCHANGED <<minted, policy, known, tickets, lapsed>>
  BY TicketsKeptRevivesNone DEF Arrive, TicketsKept
<1>2. /\ p \in Payload /\ p.result \in known \cup {NoTicket}
      /\ p.api = "openai" => p.result = NoTicket
  BY BodyTyped DEF EndpointInv
<1>3. /\ phase \in {"refused", "waiting", "arrived"}
      /\ phase = "arrived" => Answers(p)
      /\ phase = "waiting" => p.api = "openai"
  BY DEF Phases
<1>4. p.api \in {"messages", "openai"} /\ Live(p.result) \in BOOLEAN
  BY <1>2 DEF Payload, Live
<1> HIDE DEF phase
<1>5. /\ q \in Request
      /\ q.phase = phase /\ q.body = p /\ q.ticket = NoTicket
      /\ q.vouched = Live(p.result)
  BY <1>2, <1>3, <1>4, IdleTyped DEF Idle, Request, Phases
<1> HIDE DEF q
<1>6. req'[r] = q
  BY <1>1 DEF EndpointInv, FieldsInv
<1>7. Carried(req[r])'
  BY <1>1, <1>2, <1>5, <1>6 DEF Carried, EndpointInv, StoreInv
<1>8. Vouched(req[r])'
  BY <1>3, <1>4, <1>5, <1>6 DEF Vouched, Answers
<1>9. Decided(req[r])'
  BY <1>3, <1>5, <1>6 DEF Decided
<1> QED BY <1>1, <1>5, <1>7, <1>8, <1>9, OneMoves

LEMMA AdmitKeeps ==
  ASSUME EndpointInv, NEW r \in Requests, Admit(r)
  PROVE  EndpointInv'
<1> DEFINE p == req[r].body
           q == [req[r] EXCEPT
                   !.phase = IF p.allowed /\ ~Doomed(p) THEN "waiting" ELSE "refused",
                   !.pending = Live(p.result)]
<1>1. req[r] \in Request /\ req \in [Requests -> Request]
  BY DEF EndpointInv, FieldsInv
<1>2. /\ req' = [req EXCEPT ![r] = q]
      /\ NoneRevived
      /\ UNCHANGED <<minted, policy, known, tickets, lapsed>>
      /\ req[r].phase = "arrived"
  BY <1>1, TicketsKeptRevivesNone DEF Admit, TicketsKept
<1>3. Live(p.result) \in BOOLEAN /\ (Live(p.result) <=> LiveAt(p.result))
  BY LiveIsPlaced DEF Live, EndpointInv
<1>4. /\ q \in Request
      /\ q.body = p /\ q.ticket = req[r].ticket /\ q.vouched = req[r].vouched
      /\ q.pending = Live(p.result)
      /\ q.phase \in {"waiting", "refused"}
      /\ q.phase = "waiting" => ~Doomed(p)
  BY <1>1, <1>3 DEF Request, Phases
<1>5. Carried(req[r]) /\ Vouched(req[r])
  BY DEF EndpointInv, RequestInv
<1> HIDE DEF q
<1>6. req'[r] = q
  BY <1>1, <1>2
<1>7. Carried(req[r])'
  BY <1>2, <1>4, <1>5, <1>6 DEF Carried
<1>8. Vouched(req[r])'
  BY <1>2, <1>4, <1>5, <1>6 DEF Vouched
<1>9. Decided(req[r])'
  <2>1. LiveAt(p.result)' <=> LiveAt(p.result)
    BY <1>2, <1>4, <1>6 DEF LiveAt
  <2>2. /\ ShellAllowed(req[r].body)' <=> ShellAllowed(p)
        /\ Permits(req[r].body.command)' <=> Permits(p.command)
    BY <1>2, <1>4, <1>6 DEF ShellAllowed, Permits
  <2>3. p.shell \in BOOLEAN
    BY <1>1 DEF Request, Payload
  <2> QED BY <1>2, <1>3, <1>4, <1>6, <2>1, <2>2, <2>3 DEF Decided, Doomed, LiveAt
<1> QED BY <1>2, <1>4, <1>7, <1>8, <1>9, OneMoves

\* The answers that spend no ticket, or the one the request brought.
LEMMA ServeKeeps ==
  ASSUME EndpointInv, NEW r \in Requests,
         ServeOpenAi(r) \/ ServeTitle(r) \/ Echo(r) \/ RefuseCommand(r) \/ Forward(r)
  PROVE  EndpointInv'
<1>1. CASE ServeOpenAi(r) \/ ServeTitle(r)
  <2>1. PICK phase \in Phases \ {"arrived", "waiting"} : Goes(r, phase)
    BY <1>1 DEF ServeOpenAi, ServeTitle, Phases
  <2>2. NoneRevived
    BY <1>1, TicketsKeptRevivesNone DEF ServeOpenAi, ServeTitle, Served
  <2> QED BY <2>1, <2>2, Decision
<1>2. CASE Echo(r) \/ RefuseCommand(r) \/ Forward(r)
  <2>1. PICK phase \in Phases \ {"arrived", "waiting"} : Goes(r, phase)
    BY <1>2 DEF Echo, RefuseCommand, Forward, Phases
  <2>2. Consume(req[r].body.result) /\ UNCHANGED <<policy, minted, known>>
    BY <1>2 DEF Echo, RefuseCommand, Forward, NoEcho, Served
  <2>3. NoneRevived
    BY <2>2, ConsumptionRevivesNone
  <2> QED BY <2>1, <2>3, Decision
<1> QED BY <1>1, <1>2

LEMMA DelegateKeeps ==
  ASSUME EndpointInv, NEW r \in Requests, NEW t \in Tickets, Delegate(r, t)
  PROVE  EndpointInv'
<1> DEFINE q == [req[r] EXCEPT !.phase = "delegated", !.ticket = t]
<1>1. req[r] \in Request /\ req \in [Requests -> Request]
  BY DEF EndpointInv, FieldsInv
<1>2. /\ Issue(t) /\ UNCHANGED <<policy, known>>
      /\ req' = [req EXCEPT ![r] = q]
  BY <1>1 DEF Delegate, NoEcho, Served
<1>3. /\ StoreInv'
      /\ t \in minted' /\ minted \subseteq minted'
      /\ \A u : LiveAt(u)' => LiveAt(u) \/ u = t
  BY <1>2, Issuance DEF EndpointInv
<1>4. t \notin minted \cup {NoTicket}
  BY <1>2, EndpointAssumption DEF Issue
<1>5. NoneRevived
  BY <1>2, <1>3, <1>4 DEF NoneRevived
<1>6. q \in Request /\ q.phase = "delegated" /\ q.body = req[r].body /\ q.ticket = t
  BY <1>1 DEF Request, Phases
<1> HIDE DEF q
<1>7. req'[r] = q
  BY <1>1, <1>2
<1>8. Carried(req[r])'
  BY <1>3, <1>6, <1>7 DEF EndpointInv, RequestInv, Carried
<1> QED BY <1>2, <1>5, <1>6, <1>8, Over

\* The request is over for the server; what the client learned, it keeps.
LEMMA EndKeeps ==
  ASSUME EndpointInv, NEW r \in Requests, Deliver(r) \/ Disconnect(r)
  PROVE  EndpointInv'
<1>1. /\ req' = [req EXCEPT ![r] = Idle]
      /\ UNCHANGED <<tickets, lapsed, minted, policy>>
      /\ known' \subseteq known \cup ({req[r].ticket} \ {NoTicket})
  BY DEF Deliver, Disconnect, TicketsKept
<1>2. known' \subseteq minted
  BY <1>1 DEF EndpointInv, RequestInv, Carried, StoreInv
<1>3. NoneRevived
  BY <1>1, <1>2 DEF NoneRevived, EndpointInv, StoreInv, LiveAt
<1>4. req'[r] = Idle
  BY <1>1 DEF EndpointInv, FieldsInv
<1>5. Carried(req[r])'
  BY <1>4, IdleTyped DEF Carried, Plain
<1> QED BY <1>1, <1>3, <1>5, IdleTyped, Over

LEMMA RestartKeeps ==
  ASSUME EndpointInv, Restart
  PROVE  EndpointInv'
<1> DEFINE none == <<>>
<1>1. /\ none \in Seq(Tickets) /\ Len(none) = 0 /\ DOMAIN none = {}
  OBVIOUS
<1> HIDE DEF none
<1>2. /\ tickets' = none /\ lapsed' = 0 /\ req' = [r \in Requests |-> Idle]
      /\ UNCHANGED <<policy, minted, known>>
  BY DEF Restart, none
<1>3. StoreInv'
  BY <1>1, <1>2, EndpointAssumption DEF EndpointInv, StoreInv
<1>4. FieldsInv'
  BY <1>2, IdleTyped DEF EndpointInv, FieldsInv
<1>5. RequestInv'
  BY <1>2, IdleTyped DEF RequestInv, Carried, Vouched, Decided, Plain
<1> QED BY <1>3, <1>4, <1>5 DEF EndpointInv

LEMMA ExpireKeeps ==
  ASSUME EndpointInv, Expire
  PROVE  EndpointInv'
<1>1. NoneRevived /\ req' = req /\ policy' = policy
  BY Ageing DEF EndpointInv, NoneRevived, Expire
<1>2. FieldsInv'
  BY <1>1 DEF EndpointInv, FieldsInv
<1>3. RequestInv'
  BY <1>1, Unmoved DEF EndpointInv, RequestInv
<1> QED BY <1>1, <1>2, <1>3 DEF EndpointInv, NoneRevived

-----------------------------------------------------------------------------
(* The invariant.                                                          *)

LEMMA InitEndpointInv == Init => EndpointInv
<1> SUFFICES ASSUME Init PROVE EndpointInv
  OBVIOUS
<1> DEFINE none == <<>>
<1>1. /\ none \in Seq(Tickets) /\ Len(none) = 0 /\ DOMAIN none = {}
  OBVIOUS
<1> HIDE DEF none
<1>2. /\ tickets = none /\ lapsed = 0 /\ req = [r \in Requests |-> Idle]
      /\ minted = {} /\ known = {}
      /\ policy \in {"disabled", "allowlist", "unrestricted"}
  BY DEF Init, none
<1>3. StoreInv
  BY <1>1, <1>2, EndpointAssumption DEF StoreInv
<1>4. FieldsInv
  BY <1>2, IdleTyped DEF FieldsInv
<1>5. RequestInv
  BY <1>2, IdleTyped DEF RequestInv, Carried, Vouched, Decided, Plain
<1> QED BY <1>3, <1>4, <1>5 DEF EndpointInv

LEMMA NextEndpointInv == EndpointInv /\ [Next]_vars => EndpointInv'
<1> SUFFICES ASSUME EndpointInv, [Next]_vars PROVE EndpointInv'
  OBVIOUS
<1>1. ASSUME NEW r \in Requests, NEW p \in Bodies, Arrive(r, p) PROVE EndpointInv'
  BY <1>1, ArriveKeeps
<1>2. ASSUME NEW r \in Requests, Admit(r) PROVE EndpointInv'
  BY <1>2, AdmitKeeps
<1>3. ASSUME NEW r \in Requests,
             ServeOpenAi(r) \/ ServeTitle(r) \/ Echo(r) \/ RefuseCommand(r) \/ Forward(r)
      PROVE  EndpointInv'
  BY <1>3, ServeKeeps
<1>4. ASSUME NEW r \in Requests, NEW t \in Tickets, Delegate(r, t) PROVE EndpointInv'
  BY <1>4, DelegateKeeps
<1>5. ASSUME NEW r \in Requests, Deliver(r) \/ Disconnect(r) PROVE EndpointInv'
  BY <1>5, EndKeeps
<1>6. CASE Expire
  BY <1>6, ExpireKeeps
<1>7. CASE Restart
  BY <1>7, RestartKeeps
<1>8. CASE UNCHANGED vars
  <2>1. UNCHANGED <<policy, tickets, lapsed, minted, known, req>>
    BY <1>8 DEF vars
  <2>2. NoneRevived
    BY <2>1 DEF NoneRevived, EndpointInv, StoreInv, LiveAt
  <2>3. FieldsInv'
    BY <2>1 DEF EndpointInv, FieldsInv
  <2>4. RequestInv'
    BY <2>1, <2>2, Unmoved DEF EndpointInv, RequestInv
  <2> QED BY <2>2, <2>3, <2>4 DEF EndpointInv, NoneRevived
<1> QED BY <1>1, <1>2, <1>3, <1>4, <1>5, <1>6, <1>7, <1>8 DEF Next

\* Of every request that waits for a place: the verdict on its command is the
\* one it will get, and a result without its call was vouched for by a live
\* ticket when the request was validated.
THEOREM EndpointInvariant == Spec => []EndpointInv
<1> QED BY InitEndpointInv, NextEndpointInv, PTL DEF Spec

\* The store never holds more tickets than its capacity, nor one twice, and
\* all it holds were given out.
THEOREM EndpointTypeCorrect == Spec => []TypeOK
<1>1. EndpointInv => TypeOK
  <2> SUFFICES ASSUME EndpointInv PROVE TypeOK
    OBVIOUS
  <2>1. IsInjective(tickets)
    BY DEF EndpointInv, StoreInv, IsInjective
  <2>2. ToSet(tickets) \subseteq minted
    BY DEF EndpointInv, StoreInv, ToSet
  <2> QED BY <2>1, <2>2 DEF EndpointInv, StoreInv, FieldsInv, Request, TypeOK
<1> QED BY <1>1, EndpointInvariant, PTL

-----------------------------------------------------------------------------
(* What a step may not do.                                                 *)

\* The phase a request has after a step: only the action named takes it there.
LEMMA PhaseChanges ==
  ASSUME EndpointInv, [Next]_vars, NEW r \in Requests
  PROVE  /\ Becomes(r, "echoed") => Echo(r)
         /\ Becomes(r, "refused") /\ req[r].phase = "waiting"
              => ServeOpenAi(r) \/ Echo(r) \/ RefuseCommand(r)
         /\ Becomes(r, "upstream") => ServeOpenAi(r) \/ Forward(r)
<1> DEFINE Goal == /\ Becomes(r, "echoed") => Echo(r)
                   /\ Becomes(r, "refused") /\ req[r].phase = "waiting"
                        => ServeOpenAi(r) \/ Echo(r) \/ RefuseCommand(r)
                   /\ Becomes(r, "upstream") => ServeOpenAi(r) \/ Forward(r)
<1>1. req \in [Requests -> Request]
  BY DEF EndpointInv, FieldsInv
<1>2. \A s \in Requests : req[s] \in Request
  BY <1>1
\* A step of another request, or of none.
<1>3. ASSUME req'[r].phase = req[r].phase PROVE Goal
  BY <1>3 DEF Becomes
<1>4. ASSUME req'[r].phase = "idle" PROVE Goal
  BY <1>4 DEF Becomes
<1>5. ASSUME NEW s \in Requests, NEW x, Goes(s, x)
      PROVE  req'[r].phase = req[r].phase \/ (s = r /\ req'[r].phase = x)
  BY <1>1, <1>2, <1>5 DEF Goes, Request
<1>6. ASSUME NEW s \in Requests, NEW p \in Bodies, Arrive(s, p) PROVE Goal
  <2>1. CASE s # r
    BY <1>1, <1>3, <1>6, <2>1 DEF Arrive
  <2>2. CASE s = r
    <3>1. req[r].phase = "idle"
      BY <1>6, <2>2 DEF Arrive
    <3> DEFINE phase == IF ~p.sound THEN "refused"
                        ELSE IF p.api = "openai" THEN "waiting"
                        ELSE IF Answers(p) THEN "arrived" ELSE "refused"
    <3>2. phase \notin {"echoed", "upstream"}
      OBVIOUS
    <3>3. req'[r].phase = phase
      BY <1>1, <1>6, <2>2, IdleTyped DEF Arrive, Request
    <3> QED BY <3>1, <3>2, <3>3 DEF Becomes
  <2> QED BY <2>1, <2>2
<1>7. ASSUME NEW s \in Requests, Admit(s) PROVE Goal
  <2>1. CASE s # r
    BY <1>1, <1>3, <1>7, <2>1 DEF Admit
  <2>2. CASE s = r
    BY <1>1, <1>2, <1>7, <2>2 DEF Admit, Becomes, Request
  <2> QED BY <2>1, <2>2
<1>8. ASSUME NEW s \in Requests,
             ServeOpenAi(s) \/ ServeTitle(s) \/ Echo(s) \/ RefuseCommand(s) \/ Forward(s)
      PROVE  Goal
  <2>1. CASE ServeOpenAi(s)
    BY <1>3, <1>5, <2>1 DEF ServeOpenAi, Becomes
  <2>2. CASE ServeTitle(s)
    BY <1>3, <1>5, <2>2 DEF ServeTitle, Becomes
  <2>3. CASE Echo(s)
    BY <1>3, <1>5, <2>3 DEF Echo, Becomes
  <2>4. CASE RefuseCommand(s)
    BY <1>3, <1>5, <2>4 DEF RefuseCommand, Becomes
  <2>5. CASE Forward(s)
    BY <1>3, <1>5, <2>5 DEF Forward, Becomes
  <2> QED BY <1>8, <2>1, <2>2, <2>3, <2>4, <2>5
<1>9. ASSUME NEW s \in Requests, NEW t \in Tickets, Delegate(s, t) PROVE Goal
  <2>1. CASE s # r
    BY <1>1, <1>3, <1>9, <2>1 DEF Delegate
  <2>2. CASE s = r
    BY <1>1, <1>2, <1>9, <2>2 DEF Delegate, Becomes, Request
  <2> QED BY <2>1, <2>2
<1>10. ASSUME NEW s \in Requests, Deliver(s) \/ Disconnect(s) PROVE Goal
  <2>1. req' = [req EXCEPT ![s] = Idle]
    BY <1>10 DEF Deliver, Disconnect
  <2>2. req'[r] = req[r] \/ req'[r] = Idle
    BY <1>1, <2>1
  <2> QED BY <1>3, <1>4, <2>2, IdleTyped
<1>11. CASE Expire
  BY <1>3, <1>11 DEF Expire
<1>12. CASE Restart
  BY <1>4, <1>12, IdleTyped DEF Restart
<1>13. CASE UNCHANGED vars
  BY <1>3, <1>13 DEF vars
<1> QED BY <1>6, <1>7, <1>8, <1>9, <1>10, <1>11, <1>12, <1>13 DEF Next

\* Of any number of requests that wait, spend tickets and are given new ones:
\* none is refused for its command after it waited, nor is a result forwarded
\* without its call, unless the ticket that spoke for it was lost meanwhile.
THEOREM VerdictsHold == Spec => AdmissionDecides
<1> DEFINE Holds(r) ==
      LET p == req[r].body IN
      req[r].phase = "waiting" =>
        /\ Becomes(r, "refused") /\ p.api = "messages"
             => req[r].pending /\ ~Live(p.result)
        /\ Becomes(r, "upstream") /\ p.result # NoTicket /\ ~p.history
             => req[r].vouched /\ ~Live(p.result)
<1>1. EndpointInv /\ [Next]_vars => \A r \in Requests : Holds(r)
  <2> SUFFICES ASSUME EndpointInv, [Next]_vars, NEW r \in Requests,
                      req[r].phase = "waiting"
               PROVE  Holds(r)
    OBVIOUS
  <2> DEFINE p == req[r].body
  <2>1. req[r] \in Request /\ Carried(req[r]) /\ Vouched(req[r]) /\ Decided(req[r])
    BY DEF EndpointInv, FieldsInv, RequestInv
  <2>2. Live(p.result) <=> LiveAt(p.result)
    BY LiveIsPlaced DEF EndpointInv
  <2>3. p.api \in {"messages", "openai"} /\ p.shell \in BOOLEAN /\ req[r].pending \in BOOLEAN
    BY <2>1 DEF Request, Payload
  <2>4. ASSUME Becomes(r, "refused"), p.api = "messages"
        PROVE  req[r].pending /\ ~Live(p.result)
    <3>1. Echo(r) \/ RefuseCommand(r)
      BY <2>4, PhaseChanges DEF ServeOpenAi
    <3>2. CASE Echo(r)
      <4>1. Live(p.result) /\ ~ShellAllowed(p)
        BY <2>1, <2>4, <3>2 DEF Echo, Becomes, Goes, EndpointInv, FieldsInv
      <4> QED BY <2>1, <2>2, <2>3, <2>4, <4>1 DEF Decided
    <3>3. CASE RefuseCommand(r)
      <4>1. /\ ~Live(p.result) /\ p.command # "none"
            /\ ~(ShellAllowed(p) /\ Permits(p.command))
        BY <3>3 DEF RefuseCommand, NoEcho
      <4>2. Permits(p.command) => policy # "disabled"
        BY DEF Permits
      <4> QED BY <2>1, <2>3, <2>4, <4>1, <4>2 DEF Decided, ShellAllowed
    <3> QED BY <3>1, <3>2, <3>3
  <2>5. ASSUME Becomes(r, "upstream"), p.result # NoTicket, ~p.history
        PROVE  req[r].vouched /\ ~Live(p.result)
    <3>1. p.api = "messages"
      BY <2>1, <2>3, <2>5 DEF Carried
    <3>2. Forward(r)
      BY <2>5, <3>1, PhaseChanges DEF ServeOpenAi
    <3> QED BY <2>1, <2>5, <3>1, <3>2 DEF Forward, NoEcho, Vouched
  <2> QED BY <2>4, <2>5
<1> QED BY <1>1, EndpointInvariant, PTL DEF Spec, AdmissionDecides

\* A step that leaves the store alone loses no ticket.
LEMMA KeptStaysStored ==
  ASSUME StoreInv, NEW t, Live(t), tickets' = tickets
  PROVE  t \in ToSet(tickets')
BY LiveIsPlaced DEF LiveAt, ToSet

LEMMA LostIsNotStored ==
  ASSUME StoreInv', NEW t
  PROVE  t \in ToSet(tickets') <=> Stored(t)'
BY DEF StoreInv, Stored, ToSet

\* A ticket that is live is lost by the answer that shows its result, to newer
\* ones when the store is full, or with the server: never by a refusal, by a
\* request that fails later, or by a second request that brings it.
THEOREM TicketsAreSpentOnce == Spec => TicketsSpentByEchoes
<1> DEFINE Shows(r) ==
      Becomes(r, "echoed") => /\ Live(req[r].body.result)
                              /\ req[r].body.result \notin ToSet(tickets')
           Spends(t) ==
      Live(t) /\ t \notin ToSet(tickets') =>
        \/ \E r \in Requests : Becomes(r, "echoed") /\ req[r].body.result = t
        \/ Len(tickets) = Capacity /\ minted' # minted
        \/ Restart
<1>1. ASSUME EndpointInv, [Next]_vars, NEW r \in Requests, Becomes(r, "echoed")
      PROVE  Live(req[r].body.result) /\ req[r].body.result \notin ToSet(tickets')
  <2>1. Echo(r)
    BY <1>1, PhaseChanges
  <2>2. /\ Live(req[r].body.result) /\ Consume(req[r].body.result)
        /\ UNCHANGED <<minted, known>>
    BY <2>1 DEF Echo, Served
  <2>3. PICK t : t = req[r].body.result
    OBVIOUS
  <2>4. StoreInv' /\ ~Stored(t)'
    BY <1>1, <2>2, <2>3, Consumption DEF EndpointInv
  <2>5. t \notin ToSet(tickets')
    BY <2>4, LostIsNotStored
  <2> QED BY <2>2, <2>3, <2>5
<1>2. ASSUME EndpointInv, [Next]_vars, NEW t, Live(t), t \notin ToSet(tickets')
      PROVE  \/ \E r \in Requests : Becomes(r, "echoed") /\ req[r].body.result = t
             \/ Len(tickets) = Capacity /\ minted' # minted
             \/ Restart
  <2>1. tickets' # tickets
    BY <1>2, KeptStaysStored DEF EndpointInv
  <2>2. StoreInv /\ StoreInv'
    BY <1>2, NextEndpointInv DEF EndpointInv
  <2>3. LiveAt(t) /\ Stored(t) /\ ~Stored(t)'
    BY <1>2, <2>2, LiveIsPlaced, LostIsNotStored DEF LiveAt, Stored
  <2>4. ASSUME NEW u, Consume(u), UNCHANGED <<minted, known>>
        PROVE  u = t
    BY <2>2, <2>3, <2>4, Consumption
  <2>5. CASE \E r \in Requests : Echo(r)
    <3>1. PICK r \in Requests : Echo(r)
      BY <2>5
    <3> DEFINE p == req[r].body
    <3>2. p.result = t
      BY <2>4, <3>1 DEF Echo, Served
    <3>3. Decided(req[r]) /\ req[r].phase = "waiting" /\ p.api = "messages"
      BY <1>2, <3>1 DEF EndpointInv, RequestInv, Echo, Served, Placed
    <3>4. ShellAllowed(p)
      <4>1. req[r].pending \in BOOLEAN
        BY <1>2 DEF EndpointInv, FieldsInv, Request
      <4> QED BY <2>3, <3>2, <3>3, <4>1 DEF Decided
    <3>5. Becomes(r, "echoed")
      BY <1>2, <3>1, <3>3, <3>4
         DEF Echo, Becomes, Goes, EndpointInv, FieldsInv, Request
    <3> QED BY <3>2, <3>5
  <2>6. CASE \E r \in Requests : RefuseCommand(r) \/ Forward(r)
    <3>1. PICK r \in Requests : RefuseCommand(r) \/ Forward(r)
      BY <2>6
    <3>2. /\ Consume(req[r].body.result) /\ UNCHANGED <<minted, known>>
          /\ ~Live(req[r].body.result)
      BY <3>1 DEF RefuseCommand, Forward, NoEcho, Served
    <3> QED BY <1>2, <2>4, <3>2
  <2>7. CASE \E r \in Requests, u \in Tickets : Delegate(r, u)
    <3>1. PICK u \in Tickets : Issue(u) /\ UNCHANGED known
      BY <2>7 DEF Delegate, NoEcho, Served
    <3>2. minted' # minted /\ Len(tickets) = Capacity
      BY <2>2, <2>3, <3>1, Issuance
    <3> QED BY <3>2
  <2>8. CASE Restart
    BY <2>8
  <2> QED
    BY <1>2, <2>1, <2>5, <2>6, <2>7, <2>8
       DEF Next, vars, Arrive, Admit, ServeOpenAi, ServeTitle, Deliver, Disconnect,
           Expire, TicketsKept
<1>3. EndpointInv /\ [Next]_vars =>
        (\A r \in Requests : Shows(r)) /\ (\A t \in Tickets : Spends(t))
  BY <1>1, <1>2
<1> QED BY <1>3, EndpointInvariant, PTL DEF Spec, TicketsSpentByEchoes

-----------------------------------------------------------------------------
(***************************************************************************)
(* The self-update.  An update finds the installed binary where another    *)
(* one may be putting it back, and each may be killed at any step; what is *)
(* left is decided by counting.  Every update that has moved the installed *)
(* binary away can take one name out of use, and there is always one name  *)
(* more than there are such updates: Enough, in UpdatesInv, which also     *)
(* says that a binary is in use under one name only, and that the names an *)
(* update keeps its backup and its candidate under are its own.            *)
(***************************************************************************)

\* The names a binary is used or kept under.
Kept == {n \in U!Name : n.kind # "temp"}

\* How far an update is: it has not moved the installed binary away; its
\* candidate is not in place yet; it has moved the installed binary away and
\* nothing of its own is in place; something is.
Before == {"idle", "launched", "chosen", "written", "vetted"}
Fresh == Before \cup {"moved", "unplaced"}
Handled == {u \in Updates : update[u].pc \in {"moved", "unplaced", "removed"}}
InPlace == {u \in Updates : update[u].pc \in {"placed", "rejected", "confirmed"}}
Under == Handled \cup InPlace

IsUpdate(x) ==
  /\ x = [pc |-> x.pc, exe |-> x.exe, path |-> x.path, version |-> x.version,
          forced |-> x.forced, clean |-> x.clean]
  /\ x.pc \in U!Pcs /\ x.exe \in U!Binary
  /\ x.path = <<>> \/ (x.path = <<x.path[1]>> /\ x.path[1] \in Kept)
  /\ x.version \in Versions /\ x.forced \in BOOLEAN /\ x.clean \in BOOLEAN

UpdatesTyped ==
  /\ disk \in [U!Name -> U!Binary \cup {Nothing}]
  /\ tried \subseteq Updates
  /\ update = [u \in Updates |-> update[u]]
  /\ \A u \in Updates : IsUpdate(update[u])

\* The update has left its temporary name for good.
Out(w) == disk[U!Temp(w)] # w /\ update[w].pc \notin Fresh

\* A temporary name holds the candidate it was made for, from the download
\* until the candidate is placed.
Candidates ==
  \A u \in Updates :
    /\ disk[U!Temp(u)] \in {u, Nothing}
    /\ update[u].pc \in {"idle", "launched", "chosen"} => disk[U!Temp(u)] = Nothing
    /\ update[u].pc \in {"written", "vetted", "moved", "unplaced"} => disk[U!Temp(u)] = u
    /\ update[u].pc \in {"vetted", "moved", "unplaced"} => u \in tried

\* The other names hold binaries that work, each under one of them.
InUse ==
  /\ \A n \in Kept : disk[n] \in tried \cup {Shipped, Nothing}
  /\ \A n \in Kept, w \in Updates : disk[n] = w => Out(w)
  /\ \A v, w \in Updates : update[v].exe = w => Out(w)
  /\ \A m, n \in Kept : disk[m] = disk[n] /\ disk[m] # Nothing => m = n

\* The name an update keeps the previous binary under is its own.
Apart ==
  /\ \A u \in Under : update[u].path # <<>>
  /\ \A u \in Updates : update[u].path # <<U!Backup(u)>>
  /\ \A u \in Updates : update[u].pc \in Before =>
       /\ disk[U!Backup(u)] = Nothing
       /\ \A v \in Updates : update[v].path # <<U!Backup(u)>>

\* The names that hold a binary or are going to, with or without success: one
\* more than the updates that may still remove one.
Occupied == {n \in Kept : disk[n] # Nothing}
Slots == Occupied \cup {U!Path(u) : u \in Handled}
Enough == Cardinality(Slots) >= 1 + Cardinality(Under)

\* What an update finds that nothing disturbs.
Undisturbed ==
  \A u \in U!Running : update[u].clean =>
    /\ U!Running = {u}
    /\ update[u].pc \in {"launched", "chosen", "written", "vetted"} =>
         disk[U!Target] = update[u].exe
    /\ update[u].pc # "launched" => update[u].path = <<U!Target>>
    /\ u \in Under => disk[U!Backup(u)] = update[u].exe

UpdatesInv ==
  UpdatesTyped /\ Candidates /\ InUse /\ Apart /\ Enough /\ Undisturbed

-----------------------------------------------------------------------------
LEMMA Names ==
  /\ Kept \subseteq U!Name /\ U!Target \in Kept
  /\ \A u \in Updates : /\ U!Temp(u) \in U!Name \ Kept
                        /\ U!Backup(u) \in Kept /\ U!Backup(u) # U!Target
  /\ \A u, v \in Updates : /\ U!Temp(u) = U!Temp(v) => u = v
                           /\ U!Backup(u) = U!Backup(v) => u = v
  /\ \A n \in U!Name \ Kept : \E u \in Updates : n = U!Temp(u)
  /\ \A n \in Kept : n = U!Target \/ \E u \in Updates : n = U!Backup(u)
BY DEF Kept, U!Name, U!Target, U!Temp, U!Backup

LEMMA KeptFinite == IsFiniteSet(Kept)
<1> DEFINE f == [u \in Updates |-> U!Backup(u)]
           B == {U!Backup(u) : u \in Updates}
<1>0. f \in [Updates -> B] /\ \A n \in B : \E u \in Updates : f[u] = n
  OBVIOUS
<1>1. IsFiniteSet(B)
  BY <1>0, UpdateAssumption, Fun_IsSurj, FS_Surjection
<1>2. IsFiniteSet({U!Target} \cup B)
  BY <1>1, FS_Singleton, FS_Union
<1>3. Kept \subseteq {U!Target} \cup B
  BY Names
<1> QED
  BY <1>2, <1>3, FS_Subset

LEMMA SlotsFinite ==
  ASSUME UpdatesTyped, \A u \in Under : update[u].path # <<>>
  PROVE  /\ Slots \subseteq Kept /\ IsFiniteSet(Slots) /\ IsFiniteSet(Under)
         /\ \A u \in Under : U!Path(u) \in Kept
<1>1. \A u \in Under : U!Path(u) \in Kept
  BY DEF UpdatesTyped, IsUpdate, Under, Handled, InPlace, U!Path
<1>2. Slots \subseteq Kept
  BY <1>1 DEF Slots, Occupied, Under
<1>3. IsFiniteSet(Slots)
  BY <1>2, KeptFinite, FS_Subset
<1>4. Under \subseteq Updates
  BY DEF Under, Handled, InPlace
<1> QED
  BY <1>1, <1>2, <1>3, <1>4, UpdateAssumption, FS_Subset

LEMMA SlotsFiniteNext ==
  ASSUME UpdatesTyped', \A u \in Under' : update'[u].path # <<>>
  PROVE  IsFiniteSet(Slots') /\ IsFiniteSet(Under')
<1>1. \A u \in Under' : U!Path(u)' \in Kept
  BY DEF UpdatesTyped, IsUpdate, Under, Handled, InPlace, U!Path
<1>2. Slots' \subseteq Kept
  BY <1>1 DEF Slots, Occupied, Under
<1>3. Under' \subseteq Updates
  BY DEF Under, Handled, InPlace
<1> QED
  BY <1>2, <1>3, KeptFinite, UpdateAssumption, FS_Subset

\* What a step of one update does to the number of names.
LEMMA EnoughStays ==
  ASSUME NEW M, NEW N, NEW V, IsFiniteSet(M), IsFiniteSet(N), IsFiniteSet(V),
         Cardinality(M) >= 1 + Cardinality(V), M \subseteq N
  PROVE  Cardinality(N) >= 1 + Cardinality(V)
<1>1. Cardinality(M) <= Cardinality(N)
  BY FS_Subset
<1>2. Cardinality(M) \in Nat /\ Cardinality(N) \in Nat /\ Cardinality(V) \in Nat
  BY FS_CardinalityType
<1> QED
  BY <1>1, <1>2

LEMMA EnoughLeaves ==
  ASSUME NEW M, NEW N, NEW V, IsFiniteSet(M), IsFiniteSet(N), IsFiniteSet(V),
         Cardinality(M) >= 1 + Cardinality(V), NEW u \in V, NEW n,
         M \ {n} \subseteq N
  PROVE  Cardinality(N) >= 1 + Cardinality(V \ {u})
<1>1. /\ Cardinality(M \ {n}) <= Cardinality(N)
      /\ IsFiniteSet(M \ {n})
  BY FS_Subset, FS_RemoveElement
<1>2. Cardinality(M \ {n}) >= Cardinality(M) - 1
  <2>1. CASE n \in M
    <3>1. Cardinality(M \ {n}) = Cardinality(M) - 1
      BY <2>1, FS_RemoveElement
    <3>2. Cardinality(M) \in Nat
      BY FS_CardinalityType
    <3> QED
      BY <3>1, <3>2
  <2>2. CASE n \notin M
    <3>1. M \ {n} = M
      BY <2>2
    <3>2. Cardinality(M) \in Nat
      BY FS_CardinalityType
    <3>3. Cardinality(M) >= Cardinality(M) - 1
      BY <3>2
    <3> QED
      BY <3>1, <3>3
  <2> QED
    BY <2>1, <2>2
<1>3. Cardinality(V \ {u}) = Cardinality(V) - 1
  BY FS_RemoveElement
<1>4. /\ Cardinality(M) \in Nat /\ Cardinality(N) \in Nat /\ Cardinality(V) \in Nat
      /\ Cardinality(M \ {n}) \in Nat
  BY <1>1, FS_CardinalityType
<1> QED
  BY <1>1, <1>2, <1>3, <1>4

LEMMA EnoughEnters ==
  ASSUME NEW M, NEW N, NEW V, IsFiniteSet(M), IsFiniteSet(N), IsFiniteSet(V),
         Cardinality(M) >= 1 + Cardinality(V), NEW u, u \notin V, NEW n, n \notin M,
         M \cup {n} \subseteq N
  PROVE  Cardinality(N) >= 1 + Cardinality(V \cup {u})
<1>1. /\ Cardinality(M \cup {n}) = Cardinality(M) + 1
      /\ IsFiniteSet(M \cup {n})
  BY FS_AddElement
<1>2. Cardinality(M \cup {n}) <= Cardinality(N)
  BY <1>1, FS_Subset
<1>3. Cardinality(V \cup {u}) = Cardinality(V) + 1
  BY FS_AddElement
<1>4. Cardinality(M) \in Nat /\ Cardinality(N) \in Nat /\ Cardinality(V) \in Nat
  BY FS_CardinalityType
<1> QED
  BY <1>1, <1>2, <1>3, <1>4

-----------------------------------------------------------------------------
(* What a step does to the update it is of.                                *)

Went(u, pc) ==
  /\ update' = [v \in Updates |-> update'[v]]
  /\ IsUpdate(update'[u]) /\ update'[u].pc = pc
  /\ update'[u].exe = update[u].exe /\ update'[u].path = update[u].path
  /\ update'[u].clean => update[u].clean
  /\ \A v \in Updates \ {u} : update'[v] = update[v]

LEMMA GoesWent ==
  ASSUME UpdatesTyped, NEW u \in Updates, NEW pc \in U!Pcs,
         U!Goes(u, pc) \/ U!GoesFaulty(u, pc)
  PROVE  Went(u, pc)
<1>1. /\ update = [v \in Updates |-> update[v]] /\ IsUpdate(update[u])
  BY DEF UpdatesTyped
<1> DEFINE x == update[u]
           y == [x EXCEPT !.pc = pc]
           z == [y EXCEPT !.clean = FALSE]
<1>2. y = [pc |-> pc, exe |-> x.exe, path |-> x.path, version |-> x.version,
           forced |-> x.forced, clean |-> x.clean]
  BY <1>1 DEF IsUpdate
<1> HIDE DEF y
<1>3. z = [pc |-> pc, exe |-> x.exe, path |-> x.path, version |-> x.version,
           forced |-> x.forced, clean |-> FALSE]
  <2>1. ASSUME NEW b
        PROVE  [y EXCEPT !.clean = b]
                 = [pc |-> pc, exe |-> x.exe, path |-> x.path,
                    version |-> x.version, forced |-> x.forced, clean |-> b]
    BY <1>2
  <2> QED
    BY <2>1
<1> HIDE DEF z
<1>4. IsUpdate(y) /\ IsUpdate(z)
  BY <1>1, <1>2, <1>3 DEF IsUpdate
<1>5. CASE U!Goes(u, pc)
  <2>1. update' = [update EXCEPT ![u] = y]
    BY <1>5 DEF U!Goes, y
  <2> QED
    BY <1>1, <1>2, <1>4, <2>1 DEF Went
<1>6. CASE U!GoesFaulty(u, pc)
  <2>1. update' = [update EXCEPT ![u] = z]
    <3> DEFINE f == [update EXCEPT ![u] = y]
    <3>1. update' = [f EXCEPT ![u].clean = FALSE]
      BY <1>6 DEF U!GoesFaulty, y
    <3>2. f = [v \in Updates |-> IF v = u THEN y ELSE update[v]]
      BY <1>1
    <3> HIDE DEF f
    <3>3. update' = [v \in Updates |-> IF v = u THEN [y EXCEPT !.clean = FALSE]
                                               ELSE update[v]]
      BY <3>1, <3>2
    <3> QED
      BY <1>1, <3>3 DEF z
  <2> QED
    BY <1>1, <1>3, <1>4, <2>1 DEF Went
<1> QED
  BY <1>5, <1>6

LEMMA WentTyped ==
  ASSUME UpdatesTyped, NEW u \in Updates, NEW pc, Went(u, pc),
         disk' \in [U!Name -> U!Binary \cup {Nothing}], tried' \subseteq Updates
  PROVE  UpdatesTyped'
BY DEF UpdatesTyped, Went

LEMMA RemoveEffect ==
  ASSUME UpdatesTyped, NEW n \in U!Name, U!Remove(n)
  PROVE  /\ disk' \in [U!Name -> U!Binary \cup {Nothing}]
         /\ disk'[n] = Nothing
         /\ \A m \in U!Name \ {n} : disk'[m] = disk[m]
BY DEF UpdatesTyped, U!Remove

LEMMA RenameEffect ==
  ASSUME UpdatesTyped, NEW from \in U!Name, NEW to \in U!Name, from # to,
         U!Rename(from, to)
  PROVE  /\ disk' \in [U!Name -> U!Binary \cup {Nothing}]
         /\ disk'[from] = Nothing /\ disk'[to] = disk[from]
         /\ \A m \in U!Name \ {from, to} : disk'[m] = disk[m]
BY DEF UpdatesTyped, U!Rename

\* What is not in the way of a step that leaves the files alone.
Still ==
  {<<"launched", "current">>, <<"launched", "failed">>, <<"chosen", "failed">>,
   <<"written", "vetted">>, <<"vetted", "failed">>, <<"moved", "unplaced">>,
   <<"placed", "confirmed">>, <<"placed", "rejected">>,
   <<"rejected", "removed">>, <<"removed", "failed">>, <<"confirmed", "failed">>}
    \cup {<<pc, "killed">> : pc \in U!Pcs \ U!Ended}

LEMMA StillStep ==
  ASSUME UpdatesInv, NEW u \in Updates, NEW pc, Went(u, pc),
         <<update[u].pc, pc>> \in Still, disk' = disk,
         tried \subseteq tried', tried' \subseteq Updates,
         pc = "vetted" => u \in tried'
  PROVE  UpdatesInv'
<1> USE DEF UpdatesInv
<1>1. /\ pc \notin {"idle", "launched", "chosen", "written", "moved", "placed"}
      /\ pc = "vetted" => update[u].pc = "written"
      /\ pc = "unplaced" => update[u].pc = "moved"
      /\ pc \in {"confirmed", "rejected"} => update[u].pc = "placed"
      /\ pc = "removed" => update[u].pc = "rejected"
      /\ pc \in U!Ended \/ update[u].pc \in {"written", "moved", "placed", "rejected"}
      /\ update[u].pc \notin U!Ended
      /\ update[u].pc \in {"removed", "confirmed"} => pc \in U!Ended
  BY DEF Still, U!Ended
<1>2. UpdatesTyped'
  BY WentTyped DEF UpdatesTyped
<1>3. Candidates'
  BY <1>1 DEF Candidates, Went, U!Ended
<1>4. \A w \in Updates : Out(w) => Out(w)'
  BY <1>1 DEF Out, Went, Fresh, Before, U!Ended
<1>5. InUse'
  BY <1>4 DEF InUse, Went
<1>6. Apart'
  BY <1>1 DEF Apart, Went, Under, Handled, InPlace, Before, U!Ended
<1>7. Enough'
  <2>1. /\ IsFiniteSet(Slots) /\ IsFiniteSet(Slots') /\ IsFiniteSet(Under)
    BY <1>2, <1>6, SlotsFinite, SlotsFiniteNext DEF Apart
  <2>2. /\ Occupied' = Occupied
        /\ \A v \in Updates : U!Path(v)' = U!Path(v)
    BY DEF Occupied, U!Path, Went
  <2>3. CASE pc \in U!Ended /\ u \in Under
    <3>1. Under' = Under \ {u} /\ Handled' = Handled \ {u}
      BY <2>3 DEF Under, Handled, InPlace, Went, U!Ended
    <3>2. Slots \ {U!Path(u)} \subseteq Slots'
      BY <2>2, <3>1 DEF Slots, Handled
    <3> QED
      BY <2>1, <2>3, <3>1, <3>2, EnoughLeaves DEF Enough
  <2>4. CASE ~(pc \in U!Ended /\ u \in Under)
    <3>0. /\ u \in Under' <=> u \in Under
          /\ u \in Handled => u \in Handled'
      <4>1. CASE pc \in U!Ended
        BY <2>4, <4>1 DEF Under, Handled, InPlace, Went, U!Ended
      <4>2. CASE pc \notin U!Ended
        BY <4>2 DEF Still, Under, Handled, InPlace, Went, U!Ended
      <4> QED
        BY <4>1, <4>2
    <3>1. Under' = Under /\ Handled \subseteq Handled'
      <4>1. \A v \in Updates \ {u} : /\ v \in Under' <=> v \in Under
                                     /\ v \in Handled' <=> v \in Handled
        BY DEF Under, Handled, InPlace, Went
      <4>2. Under \subseteq Updates /\ Under' \subseteq Updates /\ Handled \subseteq Updates
        BY DEF Under, Handled, InPlace
      <4> QED
        BY <3>0, <4>1, <4>2
    <3>2. Slots \subseteq Slots'
      BY <2>2, <3>1 DEF Slots, Handled
    <3> QED
      BY <2>1, <3>1, <3>2, EnoughStays DEF Enough
  <2> QED
    BY <2>3, <2>4
<1>8. Undisturbed'
  <2>1. U!Running' = U!Running \/ U!Running' = U!Running \ {u}
    BY <1>1 DEF U!Running, Went, U!Ended
  <2>2. ASSUME NEW v \in U!Running', update'[v].clean
        PROVE  /\ U!Running' = {v}
               /\ update'[v].pc \in {"launched", "chosen", "written", "vetted"} =>
                    disk[U!Target] = update'[v].exe
               /\ update'[v].pc # "launched" => update'[v].path = <<U!Target>>
               /\ v \in Under' => disk[U!Backup(v)] = update'[v].exe
    <3>1. v \in U!Running /\ update[v].clean /\ v \in Updates
      BY <1>1, <2>2 DEF U!Running, Went, U!Ended
    <3>2. U!Running = {v} /\ u = v
      BY <1>1, <3>1 DEF Undisturbed, U!Running
    <3>3. U!Running' = {v}
      BY <2>1, <2>2, <3>2
    <3>4. update'[v].pc \in {"launched", "chosen", "written", "vetted"} =>
            update[v].pc = "written"
      BY <1>1, <3>2 DEF Went
    <3>5. v \in Under' => v \in Under
      BY <1>1, <3>2 DEF Went, Under, Handled, InPlace, U!Ended
    <3>6. update[v].pc # "launched"
      BY <1>1, <2>2, <3>2 DEF Went, U!Running
    <3> QED
      BY <3>1, <3>2, <3>3, <3>4, <3>5, <3>6 DEF Undisturbed, Went
  <2> QED
    BY <2>2 DEF Undisturbed
<1> QED
  BY <1>2, <1>3, <1>5, <1>6, <1>7, <1>8

\* A step that takes a binary to another name, or removes one.
Shift ==
  {<<"written", "failed">>, <<"vetted", "moved">>, <<"unplaced", "failed">>,
   <<"rejected", "removed">>, <<"removed", "failed">>, <<"confirmed", "updated">>}

LEMMA ShiftStep ==
  ASSUME UpdatesInv, NEW u \in Updates, NEW pc, Went(u, pc),
         <<update[u].pc, pc>> \in Shift, tried' = tried,
         disk' \in [U!Name -> U!Binary \cup {Nothing}],
         \A v \in Updates \ {u} : disk'[U!Temp(v)] = disk[U!Temp(v)],
         \/ disk'[U!Temp(u)] = disk[U!Temp(u)]
         \/ pc # "moved" /\ disk'[U!Temp(u)] = Nothing,
         \A n \in Kept : disk'[n] = Nothing \/ \E m \in Kept : disk'[n] = disk[m],
         \A m, n \in Kept : disk'[m] = disk'[n] /\ disk'[m] # Nothing => m = n,
         \A w \in Updates : update'[w].pc \in Before =>
           disk'[U!Backup(w)] = disk[U!Backup(w)],
         update[u].pc = "vetted" => update[u].path # <<>>,
         Enough', Undisturbed'
  PROVE  UpdatesInv'
<1> USE DEF UpdatesInv
<1>1. UpdatesTyped'
  BY WentTyped DEF UpdatesTyped
<1>2. /\ pc \notin {"idle", "launched", "chosen", "written", "vetted", "unplaced"}
      /\ pc = "moved" => update[u].pc = "vetted"
      /\ pc = "moved" \/ pc \notin Fresh
      /\ update[u].pc \notin Fresh => pc # "moved"
      /\ pc \notin Before
      /\ pc = "removed" => update[u].pc = "rejected"
      /\ pc \in {"moved", "removed", "failed", "updated"}
  BY DEF Shift, Fresh, Before
<1>3. Candidates'
  <2>1. ASSUME NEW v \in Updates, v # u
        PROVE  /\ disk'[U!Temp(v)] = disk[U!Temp(v)] /\ update'[v] = update[v]
    BY <2>1 DEF Went
  <2>2. /\ disk'[U!Temp(u)] \in {u, Nothing}
        /\ pc = "moved" => disk'[U!Temp(u)] = u /\ u \in tried'
    BY <1>2 DEF Candidates
  <2> QED
    BY <1>2, <2>1, <2>2 DEF Candidates, Went
<1>4. \A w \in Updates : Out(w) => Out(w)'
  <2> SUFFICES ASSUME NEW w \in Updates, Out(w)
               PROVE  Out(w)'
    OBVIOUS
  <2>1. CASE w = u
    <3>1. Nothing # u
      BY UpdateAssumption
    <3> QED
      BY <1>2, <2>1, <3>1 DEF Out, Went
  <2>2. CASE w # u
    BY <2>2 DEF Out, Went
  <2> QED
    BY <2>1, <2>2
<1>5. InUse'
  <2>1. (\A n \in Kept : disk[n] \in tried \cup {Shipped, Nothing})'
    BY DEF InUse
  <2>2. (\A n \in Kept, w \in Updates : disk[n] = w => Out(w))'
    <3> SUFFICES ASSUME NEW n \in Kept, NEW w \in Updates, disk'[n] = w
                 PROVE  Out(w)'
      OBVIOUS
    <3>1. PICK m \in Kept : disk[m] = w
      BY UpdateAssumption
    <3> QED
      BY <1>4, <3>1 DEF InUse
  <2>3. (\A v, w \in Updates : update[v].exe = w => Out(w))'
    BY <1>4 DEF InUse, Went
  <2> QED
    BY <2>1, <2>2, <2>3 DEF InUse
<1>6. Apart'
  <2>1. (\A v \in Under : update[v].path # <<>>)'
    <3> SUFFICES ASSUME NEW v \in Under'
                 PROVE  update'[v].path # <<>>
      OBVIOUS
    <3>1. CASE v = u
      BY <1>2, <3>1 DEF Apart, Went, Under, Handled, InPlace
    <3>2. CASE v # u
      BY <3>2 DEF Apart, Went, Under, Handled, InPlace
    <3> QED
      BY <3>1, <3>2
  <2>2. \A v \in Updates : update'[v].path = update[v].path
    BY DEF Went
  <2>3. \A v \in Updates : update'[v].pc \in Before => update[v].pc \in Before
    BY <1>2 DEF Went
  <2> QED
    BY <2>1, <2>2, <2>3 DEF Apart
<1> QED
  BY <1>1, <1>3, <1>5, <1>6

\* The number of names, when the update has just begun to handle the installed
\* binary, and when it is through.
LEMMA EnoughBegins ==
  ASSUME UpdatesInv, NEW u \in Updates, u \notin Under, UpdatesTyped',
         \A v \in Under' : update'[v].path # <<>>,
         Under' = Under \cup {u}, NEW n, n \notin Slots, Slots \cup {n} \subseteq Slots'
  PROVE  Enough'
BY SlotsFinite, SlotsFiniteNext, EnoughEnters DEF UpdatesInv, Apart, Enough

LEMMA EnoughEnds ==
  ASSUME UpdatesInv, NEW u \in Under, UpdatesTyped',
         \A v \in Under' : update'[v].path # <<>>,
         Under' = Under \ {u}, NEW n, Slots \ {n} \subseteq Slots'
  PROVE  Enough'
BY SlotsFinite, SlotsFiniteNext, EnoughLeaves DEF UpdatesInv, Apart, Enough

LEMMA EnoughGoesOn ==
  ASSUME UpdatesInv, UpdatesTyped', \A v \in Under' : update'[v].path # <<>>,
         Under' = Under, Slots \subseteq Slots'
  PROVE  Enough'
BY SlotsFinite, SlotsFiniteNext, EnoughStays DEF UpdatesInv, Apart, Enough

\* A step of an update that is not undisturbed, or ends with it, or keeps what
\* an undisturbed one relies on.
LEMMA StaysUndisturbed ==
  ASSUME UpdatesInv, NEW u \in Updates, NEW pc, Went(u, pc),
         update[u].pc \notin U!Ended,
         \/ pc \in U!Ended
         \/ /\ pc \in {"moved", "removed", "placed"}
            /\ update[u].clean =>
                 update[u].path = <<U!Target>> /\ disk'[U!Backup(u)] = update[u].exe
  PROVE  Undisturbed'
<1>1. u \in U!Running
  BY DEF U!Running
<1> SUFFICES ASSUME NEW v \in U!Running', update'[v].clean
             PROVE  /\ U!Running' = {v}
                    /\ update'[v].pc \in {"launched", "chosen", "written", "vetted"} =>
                         disk'[U!Target] = update'[v].exe
                    /\ update'[v].pc # "launched" => update'[v].path = <<U!Target>>
                    /\ v \in Under' => disk'[U!Backup(v)] = update'[v].exe
  BY DEF Undisturbed
<1>2. v \in U!Running /\ update[v].clean /\ v \in Updates
  BY <1>1 DEF U!Running, Went
<1>3. U!Running = {v} /\ v = u
  BY <1>1, <1>2 DEF UpdatesInv, Undisturbed
<1>4. pc \notin U!Ended
  BY <1>3 DEF U!Running, Went
<1>5. U!Running' = {v}
  BY <1>3 DEF U!Running, Went
<1> QED
  BY <1>2, <1>3, <1>4, <1>5 DEF Went

-----------------------------------------------------------------------------
(* One lemma per step.                                                     *)

LEMMA EndsUnder ==
  ASSUME NEW u \in Under, NEW pc \in U!Ended, Went(u, pc)
  PROVE  /\ Under' = Under \ {u} /\ Handled' = Handled \ {u}
         /\ \A v \in Updates : U!Path(v)' = U!Path(v)
BY DEF Under, Handled, InPlace, Went, U!Ended, U!Path

LEMMA UnderPath ==
  ASSUME UpdatesInv, NEW u \in Under
  PROVE  /\ u \in Updates /\ U!Path(u) \in Kept /\ update[u].path = <<U!Path(u)>>
         /\ U!Path(u) # U!Backup(u) /\ U!Path(u) # U!Temp(u)
         /\ U!Backup(u) # U!Temp(u)
<1>1. /\ u \in Updates /\ update[u].path # <<>> /\ update[u].path # <<U!Backup(u)>>
  BY DEF UpdatesInv, Apart, Under, Handled, InPlace
<1>2. update[u].path = <<U!Path(u)>> /\ U!Path(u) \in Kept
  BY <1>1 DEF UpdatesInv, UpdatesTyped, IsUpdate, U!Path
<1> QED
  BY <1>1, <1>2, Names

LEMMA LaunchKeeps ==
  ASSUME UpdatesInv, NEW u \in Updates, NEW forced \in BOOLEAN, U!Launch(u, forced)
  PROVE  UpdatesInv'
<1> USE DEF UpdatesInv
<1> DEFINE x == [U!Idle EXCEPT !.pc = "launched", !.exe = disk[U!Target],
                               !.forced = forced, !.clean = U!Running = {}]
           y(v) == [update[v] EXCEPT !.clean = @ /\ v \notin U!Running]
<1>1. /\ update' = [v \in Updates |-> IF v = u THEN x ELSE y(v)]
      /\ disk' = disk /\ tried' = tried
      /\ update[u].pc = "idle" /\ disk[U!Target] # Nothing
  BY DEF U!Launch, U!At
<1>2. x = [pc |-> "launched", exe |-> disk[U!Target], path |-> <<>>,
           version |-> First, forced |-> forced, clean |-> (U!Running = {})]
  <2> DEFINE i == U!Idle
             c == [i EXCEPT !.pc = "launched"]
             d == [c EXCEPT !.exe = disk[U!Target]]
             e == [d EXCEPT !.forced = forced]
  <2>1. PICK k, f : k = FALSE /\ f = TRUE
    BY Zenon
  <2>2. PICK b : b = (U!Running = {})
    BY Zenon
  <2>3. i = [pc |-> "idle", exe |-> Shipped, path |-> <<>>, version |-> First,
             forced |-> k, clean |-> f]
    BY <2>1, Zenon DEF U!Idle
  <2>4. x = [e EXCEPT !.clean = b]
    BY <2>2, Zenon
  <2> HIDE DEF i, x
  <2>5. c = [pc |-> "launched", exe |-> Shipped, path |-> <<>>, version |-> First,
             forced |-> k, clean |-> f]
    BY <2>3
  <2> HIDE DEF c
  <2>6. d = [pc |-> "launched", exe |-> disk[U!Target], path |-> <<>>,
             version |-> First, forced |-> k, clean |-> f]
    BY <2>5
  <2> HIDE DEF d
  <2>7. e = [pc |-> "launched", exe |-> disk[U!Target], path |-> <<>>,
             version |-> First, forced |-> forced, clean |-> f]
    BY <2>6
  <2> HIDE DEF e
  <2>8. x = [pc |-> "launched", exe |-> disk[U!Target], path |-> <<>>,
             version |-> First, forced |-> forced, clean |-> b]
    BY <2>4, <2>7
  <2> QED
    BY <2>2, <2>8, Zenon
<1>3. ASSUME NEW v \in Updates
      PROVE  /\ IsUpdate(y(v)) /\ y(v).pc = update[v].pc
             /\ y(v).exe = update[v].exe /\ y(v).path = update[v].path
             /\ (y(v).clean <=> (update[v].clean /\ v \notin U!Running))
  <2> DEFINE z == update[v]
  <2>1. IsUpdate(z)
    BY DEF UpdatesTyped
  <2>2. ASSUME NEW b \in BOOLEAN
        PROVE  /\ IsUpdate([z EXCEPT !.clean = b])
               /\ [z EXCEPT !.clean = b].pc = z.pc
               /\ [z EXCEPT !.clean = b].exe = z.exe
               /\ [z EXCEPT !.clean = b].path = z.path
               /\ [z EXCEPT !.clean = b].clean = b
    BY <2>1 DEF IsUpdate
  <2> HIDE DEF z
  <2>3. PICK b \in BOOLEAN : b <=> (update[v].clean /\ v \notin U!Running)
    OBVIOUS
  <2>4. b = (update[v].clean /\ v \notin U!Running)
    BY <2>3, Zenon
  <2>5. y(v) = [z EXCEPT !.clean = b]
    BY <2>4, Zenon DEF z
  <2> HIDE DEF y
  <2> QED
    BY <2>2, <2>3, <2>5 DEF z
<1>4. IsUpdate(x)
  <2>1. disk[U!Target] \in U!Binary
    BY <1>1, Names DEF UpdatesTyped
  <2>2. (U!Running = {}) \in BOOLEAN /\ First \in Versions
    BY DEF Versions
  <2> QED
    BY <1>2, <2>1, <2>2 DEF IsUpdate, U!Pcs
<1> HIDE DEF x, y
<1>5. /\ update'[u] = x
      /\ \A v \in Updates \ {u} : update'[v] = y(v)
      /\ update' = [v \in Updates |-> update'[v]]
  BY <1>1
<1>6. UpdatesTyped'
  BY <1>1, <1>3, <1>4, <1>5 DEF UpdatesTyped
<1>7. /\ update'[u].pc = "launched" /\ update'[u].path = <<>>
      /\ update'[u].exe = disk[U!Target]
      /\ (update'[u].clean <=> (U!Running = {}))
      /\ \A v \in Updates \ {u} :
           /\ update'[v].pc = update[v].pc /\ update'[v].exe = update[v].exe
           /\ update'[v].path = update[v].path
           /\ update'[v].clean => v \notin U!Running
  <2>1. /\ x.pc = "launched" /\ x.path = <<>> /\ x.exe = disk[U!Target]
        /\ (x.clean <=> (U!Running = {}))
    <3> DEFINE r(b) == [pc |-> "launched", exe |-> disk[U!Target], path |-> <<>>,
                        version |-> First, forced |-> forced, clean |-> b]
    <3>1. ASSUME NEW b
          PROVE  /\ r(b).pc = "launched" /\ r(b).path = <<>>
                 /\ r(b).exe = disk[U!Target] /\ r(b).clean = b
      OBVIOUS
    <3>2. x = r(U!Running = {})
      BY <1>2
    <3> HIDE DEF r
    <3>3. x.clean = (U!Running = {})
      BY <3>1, <3>2, Zenon
    <3> QED
      BY <3>1, <3>2, <3>3, Zenon
  <2> QED
    BY <1>3, <1>5, <2>1, Zenon
<1>8. Candidates'
  BY <1>1, <1>7 DEF Candidates
<1>9. \A w \in Updates : Out(w)' <=> Out(w)
  BY <1>1, <1>7 DEF Out, Fresh, Before
<1>10. InUse'
  <2>1. (\A v, w \in Updates : update[v].exe = w => Out(w))'
    <3> SUFFICES ASSUME NEW v \in Updates, NEW w \in Updates, update'[v].exe = w
                 PROVE  Out(w)
      BY <1>9
    <3>1. CASE v = u
      BY <1>7, <3>1, Names DEF InUse
    <3>2. CASE v # u
      BY <1>7, <3>2 DEF InUse
    <3> QED
      BY <3>1, <3>2
  <2>2. (\A n \in Kept, w \in Updates : disk[n] = w => Out(w))'
    BY <1>1, <1>9 DEF InUse
  <2> QED
    BY <1>1, <2>1, <2>2 DEF InUse
<1>11. Under' = Under /\ Handled' = Handled
  BY <1>1, <1>7 DEF Under, Handled, InPlace
<1>12. Apart'
  <2>1. u \notin Under
    BY <1>1 DEF Under, Handled, InPlace
  <2>2. \A v \in Updates : update'[v].path = update[v].path \/ update'[v].path = <<>>
    BY <1>7
  <2>3. \A v \in Updates : update'[v].pc \in Before <=> update[v].pc \in Before
    BY <1>1, <1>7 DEF Before
  <2>4. \A v \in Under : update'[v].path = update[v].path
    BY <1>7, <2>1 DEF Under, Handled, InPlace
  <2>5. \A v, w \in Updates :
          update[w].path # <<U!Backup(v)>> => update'[w].path # <<U!Backup(v)>>
    BY <2>2
  <2>6. \A v \in Under' : update'[v].path # <<>>
    BY <1>11, <2>4 DEF Apart
  <2>7. \A v \in Updates : update'[v].path # <<U!Backup(v)>>
    BY <2>5 DEF Apart
  <2>8. \A v \in Updates : update'[v].pc \in Before =>
          /\ disk'[U!Backup(v)] = Nothing
          /\ \A w \in Updates : update'[w].path # <<U!Backup(v)>>
    BY <1>1, <2>3, <2>5 DEF Apart
  <2> QED
    BY <2>6, <2>7, <2>8 DEF Apart
<1>13. Enough'
  <2>1. \A v \in Handled : v # u /\ v \in Updates
    BY <1>1 DEF Handled
  <2>2. \A v \in Handled : U!Path(v)' = U!Path(v)
    BY <1>7, <2>1 DEF U!Path
  <2>3. Slots \subseteq Slots'
    BY <1>1, <1>11, <2>2 DEF Slots, Occupied
  <2> QED
    BY <1>6, <1>11, <1>12, <2>3, EnoughGoesOn DEF Apart
<1>14. Undisturbed'
  <2>1. \A v \in Updates \ {u} : v \in U!Running' <=> v \in U!Running
    BY <1>7 DEF U!Running
  <2>2. ASSUME NEW v \in U!Running', update'[v].clean
        PROVE  v = u /\ U!Running' = {u}
    <3>1. v \in Updates
      BY <2>2 DEF U!Running
    <3>2. v = u
      BY <1>7, <2>1, <2>2, <3>1
    <3>3. U!Running = {}
      BY <1>7, <2>2, <3>2
    <3>4. U!Running' \subseteq Updates
      BY DEF U!Running
    <3> QED
      BY <2>1, <2>2, <3>2, <3>3, <3>4
  <2>3. u \notin Under'
    BY <1>7 DEF Under, Handled, InPlace
  <2>4. disk'[U!Target] = update'[u].exe /\ update'[u].pc = "launched"
    BY <1>1, <1>7
  <2> SUFFICES ASSUME NEW v \in U!Running', update'[v].clean
               PROVE  /\ U!Running' = {v}
                      /\ update'[v].pc \in {"launched", "chosen", "written", "vetted"} =>
                           disk'[U!Target] = update'[v].exe
                      /\ update'[v].pc # "launched" => update'[v].path = <<U!Target>>
                      /\ v \in Under' => disk'[U!Backup(v)] = update'[v].exe
    BY DEF Undisturbed
  <2> QED
    BY <2>2, <2>3, <2>4
<1> QED
  BY <1>6, <1>8, <1>10, <1>12, <1>13, <1>14

LEMMA CheckKeeps ==
  ASSUME UpdatesInv, NEW u \in Updates, NEW release \in Versions, U!Check(u, release)
  PROVE  UpdatesInv'
<1> USE DEF UpdatesInv
<1>1. update[u].pc = "launched" /\ disk' = disk /\ tried' = tried
  BY DEF U!Check, U!At
<1>2. CASE U!Goes(u, "current")
  <2>1. Went(u, "current")
    BY <1>2, GoesWent DEF U!Pcs, U!Ended
  <2> QED
    BY <1>1, <2>1, StillStep DEF Still, UpdatesTyped
<1>3. CASE update' = [update EXCEPT ![u].pc = "chosen", ![u].version = release,
                                    ![u].path = U!CurrentExe(update[u].exe)]
  <2> DEFINE x == update[u]
             path == U!CurrentExe(update[u].exe)
             z == [pc |-> "chosen", exe |-> x.exe, path |-> path, version |-> release,
                   forced |-> x.forced, clean |-> x.clean]
  <2>1. update' = [update EXCEPT ![u] = z]
    <3>1. IsUpdate(x) /\ update = [v \in Updates |-> update[v]]
      BY DEF UpdatesTyped
    <3>2. [[[x EXCEPT !.pc = "chosen"] EXCEPT !.version = release] EXCEPT !.path = path] = z
      <4> HIDE DEF path
      <4> DEFINE a == [x EXCEPT !.pc = "chosen"]
                 b == [a EXCEPT !.version = release]
      <4>1. a = [pc |-> "chosen", exe |-> x.exe, path |-> x.path, version |-> x.version,
                 forced |-> x.forced, clean |-> x.clean]
        BY <3>1 DEF IsUpdate
      <4> HIDE DEF a
      <4>2. b = [pc |-> "chosen", exe |-> x.exe, path |-> x.path, version |-> release,
                 forced |-> x.forced, clean |-> x.clean]
        BY <4>1
      <4> HIDE DEF b
      <4>3. [b EXCEPT !.path = path] = z
        BY <4>2
      <4> QED
        BY <4>3 DEF a, b
    <3> DEFINE f == [update EXCEPT ![u].pc = "chosen"]
               g == [f EXCEPT ![u].version = release]
    <3>3. update' = [g EXCEPT ![u].path = path]
      BY <1>3
    <3> HIDE DEF path
    <3>4. f = [v \in Updates |-> IF v = u THEN [x EXCEPT !.pc = "chosen"] ELSE update[v]]
      BY <3>1
    <3> HIDE DEF f
    <3>5. g = [v \in Updates |-> IF v = u
                 THEN [[x EXCEPT !.pc = "chosen"] EXCEPT !.version = release]
                 ELSE update[v]]
      BY <3>4
    <3> HIDE DEF g
    <3>6. update' = [v \in Updates |-> IF v = u
            THEN [[[x EXCEPT !.pc = "chosen"] EXCEPT !.version = release] EXCEPT !.path = path]
            ELSE update[v]]
      BY <3>3, <3>5
    <3> HIDE DEF z
    <3> QED
      BY <3>1, <3>2, <3>6
  <2>2. x.exe \in U!Binary /\ x.exe # Nothing
    BY UpdateAssumption DEF UpdatesTyped, IsUpdate, U!Binary
  <2>3. path = <<>> \/ (path = <<path[1]>> /\ path[1] \in Kept /\ disk[path[1]] = x.exe)
    <3>1. CASE {n \in U!Name : disk[n] = x.exe} = {}
      BY <3>1 DEF U!CurrentExe
    <3>2. CASE {n \in U!Name : disk[n] = x.exe} # {}
      <4>1. PICK n \in U!Name : disk[n] = x.exe /\ path = <<n>>
        BY <3>2 DEF U!CurrentExe
      <4>2. n \in Kept
        <5> SUFFICES ASSUME n \notin Kept
                     PROVE  FALSE
          OBVIOUS
        <5>1. PICK w \in Updates : n = U!Temp(w)
          BY Names
        <5>2. x.exe = w
          BY <2>2, <4>1, <5>1 DEF Candidates
        <5>3. Out(w)
          BY <5>2 DEF InUse
        <5> QED
          BY <4>1, <5>1, <5>2, <5>3 DEF Out
      <4> QED
        BY <4>1, <4>2
    <3> QED
      BY <3>1, <3>2
  <2> HIDE DEF path
  <2>4. IsUpdate(z)
    BY <2>2, <2>3 DEF UpdatesTyped, IsUpdate, U!Pcs
  <2>5. /\ z.pc = "chosen" /\ z.exe = x.exe /\ z.path = path /\ z.clean = x.clean
    OBVIOUS
  <2> HIDE DEF z
  <2>6. /\ update'[u] = z /\ \A v \in Updates \ {u} : update'[v] = update[v]
        /\ update' = [v \in Updates |-> update'[v]]
    BY <2>1 DEF UpdatesTyped
  <2>7. UpdatesTyped'
    BY <1>1, <2>4, <2>6 DEF UpdatesTyped
  <2>8. Candidates'
    BY <1>1, <2>5, <2>6 DEF Candidates
  <2>9. \A w \in Updates : Out(w)' <=> Out(w)
    BY <1>1, <2>5, <2>6 DEF Out, Fresh, Before
  <2>10. InUse'
    BY <1>1, <2>5, <2>6, <2>9 DEF InUse
  <2>11. Under' = Under /\ Handled' = Handled /\ u \notin Under
    BY <1>1, <2>5, <2>6 DEF Under, Handled, InPlace
  <2>12. Apart'
    <3>1. \A v \in Updates : update'[v].pc \in Before <=> update[v].pc \in Before
      BY <1>1, <2>5, <2>6 DEF Before
    <3>2. \A v \in Updates : update[v].pc \in Before => path # <<U!Backup(v)>>
      <4> SUFFICES ASSUME NEW v \in Updates, update[v].pc \in Before,
                          path = <<U!Backup(v)>>
                   PROVE  FALSE
        OBVIOUS
      <4>1. path[1] = U!Backup(v) /\ disk[path[1]] = x.exe
        BY <2>3
      <4> QED
        BY <2>2, <4>1 DEF Apart
    <3>3. update[u].pc \in Before
      BY <1>1 DEF Before
    <3>4. \A v \in Under : v \in Updates \ {u}
      BY <2>11 DEF Under, Handled, InPlace
    <3> QED
      BY <1>1, <2>5, <2>6, <2>11, <3>1, <3>2, <3>3, <3>4 DEF Apart
  <2>13. Enough'
    <3>1. \A v \in Handled : U!Path(v)' = U!Path(v)
      BY <2>6, <2>11 DEF U!Path, Handled, Under
    <3>2. Slots \subseteq Slots'
      BY <1>1, <2>11, <3>1 DEF Slots, Occupied
    <3> QED
      BY <2>7, <2>11, <2>12, <3>2, EnoughGoesOn DEF Apart
  <2>14. Undisturbed'
    <3>1. U!Running' = U!Running /\ u \in U!Running
      BY <1>1, <2>5, <2>6 DEF U!Running, U!Ended
    <3>2. ASSUME NEW v \in U!Running', update'[v].clean
          PROVE  v = u /\ U!Running = {u} /\ disk[U!Target] = x.exe
      <4>1. update[v].clean
        BY <2>5, <2>6, <3>1, <3>2 DEF U!Running
      <4> QED
        BY <1>1, <3>1, <3>2, <4>1 DEF Undisturbed
    <3>3. disk[U!Target] = x.exe => path = <<U!Target>>
      <4> SUFFICES ASSUME disk[U!Target] = x.exe
                   PROVE  path = <<U!Target>>
        OBVIOUS
      <4>1. path # <<>>
        BY Names DEF path, U!CurrentExe
      <4> QED
        BY <2>2, <2>3, <4>1, Names DEF InUse
    <3> QED
      BY <1>1, <2>5, <2>6, <2>11, <3>1, <3>2, <3>3 DEF Undisturbed
  <2> QED
    BY <2>7, <2>8, <2>10, <2>12, <2>13, <2>14
<1> QED
  BY <1>2, <1>3 DEF U!Check

\* What an update works on has a name, the same as before.
LEMMA PathsKept ==
  ASSUME UpdatesInv, NEW u \in Updates, NEW pc, Went(u, pc),
         u \in Under \/ update[u].path # <<>> \/ u \notin Under'
  PROVE  /\ \A v \in Under' : update'[v].path # <<>>
         /\ \A v \in Updates : U!Path(v)' = U!Path(v)
<1>1. \A v \in Updates : update'[v].path = update[v].path
  BY DEF Went
<1>2. \A v \in Under' : v \in Updates /\ (v = u \/ v \in Under)
  BY DEF Under, Handled, InPlace, Went
<1> QED
  BY <1>1, <1>2 DEF UpdatesInv, Apart, U!Path

\* An update that has not begun finds no one at the name for its backup.
LEMMA BackupFree ==
  ASSUME UpdatesInv, NEW u \in Updates, update[u].pc \in Before
  PROVE  /\ disk[U!Backup(u)] = Nothing /\ U!Backup(u) \notin Slots
         /\ \A v \in Under : U!Path(v) # U!Backup(u)
<1>1. disk[U!Backup(u)] = Nothing /\ \A v \in Updates : update[v].path # <<U!Backup(u)>>
  BY DEF UpdatesInv, Apart
<1>2. \A v \in Under : v \in Updates /\ update[v].path = <<U!Path(v)>>
  BY UnderPath
<1>3. \A v \in Under : U!Path(v) # U!Backup(u)
  BY <1>1, <1>2
<1> QED
  BY <1>1, <1>3 DEF Slots, Occupied, Under

LEMMA UnavailableKeeps ==
  ASSUME UpdatesInv, NEW u \in Updates, U!Unavailable(u)
  PROVE  UpdatesInv'
<1>1. /\ disk' = disk /\ tried' = tried
      /\ update[u].pc \in {"launched", "chosen"}
      /\ U!Goes(u, "failed")
  BY DEF U!Unavailable
<1>2. Went(u, "failed")
  BY <1>1, GoesWent DEF UpdatesInv, U!Pcs, U!Ended
<1> QED
  BY <1>1, <1>2, StillStep DEF Still, UpdatesInv, UpdatesTyped

LEMMA DownloadKeeps ==
  ASSUME UpdatesInv, NEW u \in Updates, U!Download(u)
  PROVE  UpdatesInv'
<1> USE DEF UpdatesInv
<1>1. /\ disk' = [disk EXCEPT ![U!Temp(u)] = u] /\ tried' = tried
      /\ update[u].pc = "chosen" /\ U!Goes(u, "written")
  BY DEF U!Download, U!At
<1>2. Went(u, "written")
  BY <1>1, GoesWent DEF U!Pcs
<1>3. /\ disk' \in [U!Name -> U!Binary \cup {Nothing}] /\ disk'[U!Temp(u)] = u
      /\ \A n \in Kept : disk'[n] = disk[n]
      /\ \A v \in Updates \ {u} : disk'[U!Temp(v)] = disk[U!Temp(v)]
  BY <1>1, Names DEF UpdatesTyped, U!Binary
<1>4. UpdatesTyped'
  BY <1>1, <1>2, <1>3, WentTyped DEF UpdatesTyped
<1>5. Candidates'
  BY <1>1, <1>2, <1>3 DEF Candidates, Went
<1>6. \A w \in Updates : Out(w) => Out(w)'
  BY <1>1, <1>2, <1>3 DEF Out, Went, Fresh, Before
<1>7. InUse'
  BY <1>1, <1>2, <1>3, <1>6 DEF InUse, Went
<1>8. Under' = Under /\ Handled' = Handled /\ u \notin Under
  BY <1>1, <1>2 DEF Under, Handled, InPlace, Went
<1>9. \A v \in Updates : update'[v].pc \in Before <=> update[v].pc \in Before
  BY <1>1, <1>2 DEF Before, Went
<1>10. /\ \A v \in Under' : update'[v].path # <<>>
       /\ \A v \in Updates : U!Path(v)' = U!Path(v)
  BY <1>2, <1>8, PathsKept
<1>11. Apart'
  BY <1>2, <1>3, <1>9, <1>10, Names DEF Apart, Went
<1>12. Enough'
  <2>1. Slots \subseteq Slots'
    BY <1>3, <1>8, <1>10 DEF Slots, Occupied, Handled
  <2> QED
    BY <1>4, <1>8, <1>10, <2>1, EnoughGoesOn
<1>13. Undisturbed'
  <2>1. U!Running' = U!Running /\ u \in U!Running
    BY <1>1, <1>2 DEF U!Running, U!Ended, Went
  <2>2. ASSUME NEW v \in U!Running', update'[v].clean
        PROVE  v = u /\ U!Running = {u} /\ update[u].clean
    <3>1. update[v].clean
      BY <1>2, <2>1, <2>2 DEF U!Running, Went
    <3> QED
      BY <2>1, <2>2, <3>1 DEF Undisturbed
  <2>3. disk'[U!Target] = disk[U!Target]
    BY <1>3, Names
  <2> QED
    BY <1>1, <1>2, <1>8, <2>1, <2>2, <2>3 DEF Undisturbed, Went
<1> QED
  BY <1>4, <1>5, <1>7, <1>11, <1>12, <1>13

LEMMA VetKeeps ==
  ASSUME UpdatesInv, NEW u \in Updates, U!Vet(u)
  PROVE  UpdatesInv'
<1> USE DEF UpdatesInv
<1>1. update[u].pc = "written"
  BY DEF U!Vet, U!At
<1>2. CASE tried' = tried \cup {u} /\ U!Goes(u, "vetted") /\ disk' = disk
  <2>1. Went(u, "vetted")
    BY <1>2, GoesWent DEF U!Pcs
  <2> QED
    BY <1>1, <1>2, <2>1, StillStep DEF Still, UpdatesTyped
<1>3. CASE U!Remove(U!Temp(u)) /\ U!Goes(u, "failed") /\ tried' = tried
  <2>1. Went(u, "failed")
    BY <1>3, GoesWent DEF U!Pcs, U!Ended
  <2>2. /\ disk' \in [U!Name -> U!Binary \cup {Nothing}]
        /\ disk'[U!Temp(u)] = Nothing
        /\ \A m \in U!Name \ {U!Temp(u)} : disk'[m] = disk[m]
    BY <1>3, RemoveEffect, Names
  <2>3. /\ \A n \in Kept : disk'[n] = disk[n]
        /\ \A v \in Updates \ {u} : disk'[U!Temp(v)] = disk[U!Temp(v)]
    BY <2>2, Names
  <2>4. UpdatesTyped'
    BY <1>3, <2>1, <2>2, WentTyped DEF UpdatesTyped
  <2>5. Under' = Under /\ Handled' = Handled /\ u \notin Under
    BY <1>1, <2>1 DEF Under, Handled, InPlace, Went
  <2>6. Enough'
    <3>1. /\ \A v \in Under' : update'[v].path # <<>>
          /\ \A v \in Updates : U!Path(v)' = U!Path(v)
      BY <2>1, <2>5, PathsKept
    <3>2. Slots \subseteq Slots'
      BY <2>3, <2>5, <3>1 DEF Slots, Occupied, Handled
    <3> QED
      BY <2>4, <2>5, <3>1, <3>2, EnoughGoesOn
  <2>7. Undisturbed'
    BY <1>1, <2>1, StaysUndisturbed DEF U!Ended
  <2>8. \A m, n \in Kept : disk'[m] = disk'[n] /\ disk'[m] # Nothing => m = n
    BY <2>3 DEF InUse
  <2>9. \A w \in Updates : disk'[U!Backup(w)] = disk[U!Backup(w)]
    BY <2>3, Names
  <2>10. <<update[u].pc, "failed">> \in Shift
    BY <1>1 DEF Shift
  <2> QED
    BY <1>1, <1>3, <2>1, <2>2, <2>3, <2>6, <2>7, <2>8, <2>9, <2>10, ShiftStep
<1> QED
  BY <1>2, <1>3 DEF U!Vet

LEMMA SetAsideKeeps ==
  ASSUME UpdatesInv, NEW u \in Updates, U!SetAside(u)
  PROVE  UpdatesInv'
<1> USE DEF UpdatesInv
<1>1. update[u].pc = "vetted" /\ tried' = tried
  BY DEF U!SetAside, U!At
<1>2. CASE U!GoesFaulty(u, "failed") /\ disk' = disk
  <2>1. Went(u, "failed")
    BY <1>2, GoesWent DEF U!Pcs, U!Ended
  <2> QED
    BY <1>1, <1>2, <2>1, StillStep DEF Still, UpdatesTyped
<1>3. CASE U!There(u) /\ U!Rename(U!Path(u), U!Backup(u)) /\ U!Goes(u, "moved")
  <2> DEFINE p == U!Path(u)
             b == U!Backup(u)
  <2>1. Went(u, "moved")
    BY <1>3, GoesWent DEF U!Pcs
  <2>2. /\ update[u].path = <<p>> /\ p \in Kept /\ disk[p] # Nothing
        /\ p # b /\ b \in Kept
    <3>1. update[u].path # <<>> /\ update[u].path # <<b>> /\ disk[p] # Nothing
      BY <1>3 DEF U!There, Apart
    <3> QED
      BY <3>1, Names DEF UpdatesTyped, IsUpdate, U!Path
  <2>3. disk[b] = Nothing /\ b \notin Slots /\ \A v \in Under : U!Path(v) # b
    BY <1>1, BackupFree DEF Before
  <2> HIDE DEF p, b
  <2>4. /\ disk' \in [U!Name -> U!Binary \cup {Nothing}]
        /\ disk'[p] = Nothing /\ disk'[b] = disk[p]
        /\ \A m \in U!Name \ {p, b} : disk'[m] = disk[m]
    BY <1>3, <2>2, RenameEffect, Names DEF p, b
  <2>5. /\ \A n \in Kept \ {p, b} : disk'[n] = disk[n]
        /\ \A v \in Updates : disk'[U!Temp(v)] = disk[U!Temp(v)]
    BY <2>2, <2>4, Names
  <2>6. UpdatesTyped'
    BY <1>1, <2>1, <2>4, WentTyped DEF UpdatesTyped
  <2>7. Under' = Under \cup {u} /\ Handled' = Handled \cup {u} /\ u \notin Under
    BY <1>1, <2>1 DEF Under, Handled, InPlace, Went
  <2>8. Enough'
    <3>1. /\ \A v \in Under' : update'[v].path # <<>>
          /\ \A v \in Updates : U!Path(v)' = U!Path(v)
      <4>1. update[u].path # <<>>
        BY <2>2
      <4> QED
        BY <2>1, <4>1, PathsKept
    <3>2. Occupied \subseteq Occupied' \cup {p} /\ b \in Occupied'
      BY <2>2, <2>3, <2>4, <2>5 DEF Occupied
    <3>3. p \in Slots'
      BY <2>7, <3>1 DEF Slots, p
    <3>4. {U!Path(v) : v \in Handled} \subseteq Slots'
      BY <2>7, <3>1 DEF Slots, Handled
    <3>5. Slots \cup {b} \subseteq Slots'
      BY <3>2, <3>3, <3>4 DEF Slots
    <3> QED
      BY <2>3, <2>6, <2>7, <3>1, <3>5, EnoughBegins
  <2>9. Undisturbed'
    <3>1. ASSUME update[u].clean
          PROVE  update[u].path = <<U!Target>> /\ disk'[b] = update[u].exe
      <4>1. disk[U!Target] = update[u].exe /\ update[u].path = <<U!Target>>
        BY <1>1, <3>1 DEF Undisturbed, U!Running, U!Ended
      <4>2. p = U!Target
        BY <2>2, <4>1
      <4> QED
        BY <2>4, <4>1, <4>2
    <3> QED
      BY <1>1, <2>1, <3>1, StaysUndisturbed DEF U!Ended, b
  <2>10. \A m, n \in Kept : disk'[m] = disk'[n] /\ disk'[m] # Nothing => m = n
    BY <2>2, <2>3, <2>4, <2>5 DEF InUse
  <2>11. \A w \in Updates : update'[w].pc \in Before =>
           disk'[U!Backup(w)] = disk[U!Backup(w)]
    <3> SUFFICES ASSUME NEW w \in Updates, update'[w].pc \in Before
                 PROVE  disk'[U!Backup(w)] = disk[U!Backup(w)]
      OBVIOUS
    <3>1. w # u /\ update[w].pc \in Before
      BY <2>1 DEF Went, Before
    <3>2. U!Backup(w) # p /\ U!Backup(w) # b
      BY <2>2, <3>1, Names DEF Apart, b
    <3> QED
      BY <2>5, <3>2, Names
  <2>12. \A n \in Kept : disk'[n] = Nothing \/ \E m \in Kept : disk'[n] = disk[m]
    BY <2>2, <2>4, <2>5
  <2>13. <<update[u].pc, "moved">> \in Shift
    BY <1>1 DEF Shift
  <2> QED
    BY <1>1, <2>1, <2>2, <2>4, <2>5, <2>8, <2>9, <2>10, <2>11, <2>12, <2>13, ShiftStep
<1> QED
  BY <1>1, <1>2, <1>3 DEF U!SetAside

\* What an update that has moved the installed binary away works on.
LEMMA UnderNames ==
  ASSUME UpdatesInv, NEW u \in Under
  PROVE  /\ u \in Updates /\ U!Path(u) \in Kept /\ U!Backup(u) \in Kept
         /\ U!Path(u) # U!Backup(u) /\ U!Temp(u) \in U!Name \ Kept
         /\ update[u].pc \notin U!Ended
         /\ update[u].clean =>
              update[u].path = <<U!Target>> /\ disk[U!Backup(u)] = update[u].exe
         /\ \A w \in Updates : update[w].pc \in Before =>
              w # u /\ U!Backup(w) # U!Path(u) /\ U!Backup(w) # U!Backup(u)
<1>1. /\ u \in Updates /\ U!Path(u) \in Kept /\ U!Path(u) # U!Backup(u)
      /\ update[u].path = <<U!Path(u)>>
  BY UnderPath
<1>2. update[u].pc \notin U!Ended \cup Before /\ update[u].pc # "launched"
  BY DEF Under, Handled, InPlace, U!Ended, Before
<1>3. update[u].clean =>
        update[u].path = <<U!Target>> /\ disk[U!Backup(u)] = update[u].exe
  BY <1>1, <1>2 DEF UpdatesInv, Undisturbed, U!Running
<1>4. \A w \in Updates : update[w].pc \in Before =>
        w # u /\ U!Backup(w) # U!Path(u) /\ U!Backup(w) # U!Backup(u)
  BY <1>1, <1>2, Names DEF UpdatesInv, Apart
<1> QED
  BY <1>1, <1>2, <1>3, <1>4, Names

LEMMA PlaceKeeps ==
  ASSUME UpdatesInv, NEW u \in Updates, U!Place(u)
  PROVE  UpdatesInv'
<1> USE DEF UpdatesInv
<1>1. update[u].pc = "moved" /\ tried' = tried
  BY DEF U!Place, U!At
<1>2. CASE U!Goes(u, "unplaced") /\ disk' = disk
  <2>1. Went(u, "unplaced")
    BY <1>2, GoesWent DEF U!Pcs
  <2> QED
    BY <1>1, <1>2, <2>1, StillStep DEF Still, UpdatesTyped
<1>3. CASE U!Rename(U!Temp(u), U!Path(u)) /\ U!Goes(u, "placed")
  <2> DEFINE p == U!Path(u)
             t == U!Temp(u)
  <2>1. Went(u, "placed")
    BY <1>3, GoesWent DEF U!Pcs
  <2>2. u \in Under /\ u \in Handled
    BY <1>1 DEF Under, Handled
  <2>3. /\ p \in Kept /\ U!Backup(u) \in Kept /\ p # U!Backup(u)
        /\ t \in U!Name \ Kept /\ p \in U!Name
    BY <2>2, UnderNames, Names
  <2>4. disk[t] = u /\ u \in tried /\ u # Nothing
    BY <1>1, UpdateAssumption DEF Candidates
  <2> HIDE DEF p, t
  <2>5. /\ disk' \in [U!Name -> U!Binary \cup {Nothing}]
        /\ disk'[t] = Nothing /\ disk'[p] = u
        /\ \A m \in U!Name \ {p, t} : disk'[m] = disk[m]
    BY <1>3, <2>3, <2>4, RenameEffect DEF p, t
  <2>6. /\ \A n \in Kept \ {p} : disk'[n] = disk[n]
        /\ \A v \in Updates \ {u} : disk'[U!Temp(v)] = disk[U!Temp(v)]
        /\ disk'[U!Temp(u)] = Nothing
    BY <2>3, <2>5, Names DEF t
  <2>7. UpdatesTyped'
    BY <1>1, <2>1, <2>5, WentTyped DEF UpdatesTyped
  <2>8. Candidates'
    BY <1>1, <2>1, <2>6 DEF Candidates, Went
  <2>9. (\A w \in Updates : Out(w) => Out(w)') /\ Out(u)' /\ ~Out(u)
    BY <1>1, <2>1, <2>4, <2>6 DEF Out, Went, Fresh, Before
  <2>10. InUse'
    <3>1. (\A n \in Kept : disk[n] \in tried \cup {Shipped, Nothing})'
      BY <1>1, <2>4, <2>5, <2>6 DEF InUse
    <3>2. (\A n \in Kept, w \in Updates : disk[n] = w => Out(w))'
      BY <2>5, <2>6, <2>9 DEF InUse
    <3>3. (\A v, w \in Updates : update[v].exe = w => Out(w))'
      BY <2>1, <2>9 DEF InUse, Went
    <3>4. \A n \in Kept : disk[n] # u
      BY <2>9 DEF InUse
    <3>5. (\A m, n \in Kept : disk[m] = disk[n] /\ disk[m] # Nothing => m = n)'
      BY <2>5, <2>6, <3>4 DEF InUse
    <3> QED
      BY <3>1, <3>2, <3>3, <3>5 DEF InUse
  <2>11. Under' = Under
    BY <1>1, <2>1 DEF Under, Handled, InPlace, Went
  <2>12. Handled' = Handled \ {u}
    BY <1>1, <2>1 DEF Handled, Went
  <2>13. /\ \A v \in Under' : update'[v].path # <<>>
         /\ \A v \in Updates : U!Path(v)' = U!Path(v)
    BY <2>1, <2>2, PathsKept
  <2>14. Apart'
    <3>1. \A w \in Updates : update'[w].pc \in Before => update[w].pc \in Before
      BY <2>1 DEF Went, Before
    <3>2. \A w \in Updates : update'[w].pc \in Before =>
            disk'[U!Backup(w)] = disk[U!Backup(w)]
      BY <2>2, <2>6, <3>1, UnderNames, Names DEF p
    <3> QED
      BY <2>1, <2>13, <3>1, <3>2 DEF Apart, Went
  <2>15. Enough'
    <3>1. Occupied \subseteq Occupied' /\ p \in Occupied'
      BY <2>3, <2>4, <2>5, <2>6 DEF Occupied
    <3>2. {U!Path(v) : v \in Handled} \subseteq Slots'
      BY <2>12, <2>13, <3>1 DEF Slots, Handled, p
    <3>3. Slots \subseteq Slots'
      BY <3>1, <3>2 DEF Slots
    <3> QED
      BY <2>7, <2>11, <2>13, <3>3, EnoughGoesOn
  <2>16. Undisturbed'
    <3>1. update[u].clean =>
            update[u].path = <<U!Target>> /\ disk'[U!Backup(u)] = update[u].exe
      BY <2>2, <2>3, <2>6, UnderNames
    <3> QED
      BY <1>1, <2>1, <3>1, StaysUndisturbed DEF U!Ended
  <2> QED
    BY <2>7, <2>8, <2>10, <2>14, <2>15, <2>16
<1> QED
  BY <1>1, <1>2, <1>3 DEF U!Place

\* The step that takes the previous binary back.
LEMMA BackStep ==
  ASSUME UpdatesInv, NEW u \in Updates, update[u].pc \in {"unplaced", "removed"},
         Went(u, "failed"), tried' = tried,
         disk' \in [U!Name -> U!Binary \cup {Nothing}],
         disk[U!Backup(u)] # Nothing,
         disk'[U!Path(u)] = disk[U!Backup(u)], disk'[U!Backup(u)] = Nothing,
         disk'[U!Temp(u)] = disk[U!Temp(u)] \/ disk'[U!Temp(u)] = Nothing,
         \A m \in U!Name \ {U!Path(u), U!Backup(u), U!Temp(u)} : disk'[m] = disk[m]
  PROVE  UpdatesInv'
<1> DEFINE p == U!Path(u)
           b == U!Backup(u)
<1>1. u \in Under /\ u \in Handled
  BY DEF Under, Handled
<1>2. /\ p \in Kept /\ b \in Kept /\ p # b
      /\ update[u].pc \notin U!Ended
      /\ \A w \in Updates : update[w].pc \in Before =>
           w # u /\ U!Backup(w) # p /\ U!Backup(w) # b
  BY <1>1, UnderNames
<1> HIDE DEF p, b
<1>3. /\ \A n \in Kept \ {p, b} : disk'[n] = disk[n]
      /\ \A v \in Updates \ {u} : disk'[U!Temp(v)] = disk[U!Temp(v)]
  BY <1>2, Names DEF p, b
<1>4. disk'[p] = disk[b] /\ disk'[b] = Nothing /\ disk[b] # Nothing
  BY DEF p, b
<1>5. UpdatesTyped'
  BY WentTyped DEF UpdatesInv, UpdatesTyped
<1>6. Under' = Under \ {u} /\ Handled' = Handled \ {u}
  BY <1>1, EndsUnder DEF U!Ended
<1>7. Enough'
  <2>1. /\ \A v \in Under' : update'[v].path # <<>>
        /\ \A v \in Updates : U!Path(v)' = U!Path(v)
    BY <1>1, PathsKept
  <2>2. Occupied \ {b} \subseteq Occupied' /\ p \in Occupied'
    BY <1>2, <1>3, <1>4 DEF Occupied
  <2>3. {U!Path(v) : v \in Handled} \subseteq Slots'
    BY <1>6, <2>1, <2>2 DEF Slots, Handled, p
  <2>4. Slots \ {b} \subseteq Slots'
    BY <2>2, <2>3 DEF Slots
  <2> QED
    BY <1>1, <1>5, <1>6, <2>1, <2>4, EnoughEnds
<1>8. Undisturbed'
  BY <1>2, StaysUndisturbed DEF U!Ended
<1>9. \A m, n \in Kept : disk'[m] = disk'[n] /\ disk'[m] # Nothing => m = n
  BY <1>2, <1>3, <1>4 DEF UpdatesInv, InUse
<1>10. \A w \in Updates : update'[w].pc \in Before =>
         disk'[U!Backup(w)] = disk[U!Backup(w)]
  <2>1. \A w \in Updates : update'[w].pc \in Before => update[w].pc \in Before
    BY DEF Went, Before
  <2> QED
    BY <1>2, <1>3, <2>1, Names
<1>11. \A n \in Kept : disk'[n] = Nothing \/ \E m \in Kept : disk'[n] = disk[m]
  BY <1>2, <1>3, <1>4
<1>12. <<update[u].pc, "failed">> \in Shift /\ update[u].pc # "vetted"
  BY DEF Shift
<1> QED
  BY <1>3, <1>7, <1>8, <1>9, <1>10, <1>11, <1>12, ShiftStep

\* A step that removes one of the binaries an update handles.
LEMMA DropStep ==
  ASSUME UpdatesInv, NEW u \in Under, NEW pc, Went(u, pc), tried' = tried,
         <<update[u].pc, pc>> \in Shift, pc # "moved",
         NEW n \in {U!Path(u), U!Backup(u), U!Temp(u)}, U!Remove(n),
         Enough', Undisturbed'
  PROVE  UpdatesInv'
<1>1. /\ u \in Updates /\ U!Path(u) \in Kept /\ U!Backup(u) \in Kept
      /\ U!Path(u) # U!Backup(u) /\ U!Temp(u) \in U!Name \ Kept
      /\ \A w \in Updates : update[w].pc \in Before =>
           w # u /\ U!Backup(w) # U!Path(u) /\ U!Backup(w) # U!Backup(u)
  BY UnderNames
<1>2. n \in U!Name
  BY <1>1, Names
<1>3. /\ disk' \in [U!Name -> U!Binary \cup {Nothing}]
      /\ disk'[n] = Nothing /\ \A m \in U!Name \ {n} : disk'[m] = disk[m]
  BY <1>2, RemoveEffect DEF UpdatesInv
<1>4. \A m \in Kept : disk'[m] = disk[m] \/ disk'[m] = Nothing
  BY <1>3, Names
<1>5. \A v \in Updates \ {u} : disk'[U!Temp(v)] = disk[U!Temp(v)]
  BY <1>1, <1>3, Names
<1>6. disk'[U!Temp(u)] = disk[U!Temp(u)] \/ disk'[U!Temp(u)] = Nothing
  BY <1>1, <1>3
<1>7. \A w \in Updates : update'[w].pc \in Before => update[w].pc \in Before
  <2>1. pc \notin Before
    BY DEF Shift, Before
  <2> QED
    BY <2>1 DEF Went
<1>8. \A w \in Updates : update'[w].pc \in Before =>
        disk'[U!Backup(w)] = disk[U!Backup(w)]
  BY <1>1, <1>3, <1>7, Names
<1>9. \A l, m \in Kept : disk'[l] = disk'[m] /\ disk'[l] # Nothing => l = m
  BY <1>4 DEF UpdatesInv, InUse
<1>10. update[u].pc # "vetted"
  BY DEF Under, Handled, InPlace
<1> QED
  BY <1>1, <1>3, <1>4, <1>5, <1>6, <1>8, <1>9, <1>10, ShiftStep

LEMMA UnplaceKeeps ==
  ASSUME UpdatesInv, NEW u \in Updates, U!Unplace(u)
  PROVE  UpdatesInv'
<1>1. update[u].pc = "unplaced" /\ tried' = tried /\ u \in Under /\ u \in Handled
  BY DEF U!Unplace, U!At, Under, Handled
<1>2. /\ U!Path(u) \in Kept /\ U!Backup(u) \in Kept /\ U!Path(u) # U!Backup(u)
      /\ U!Temp(u) \in U!Name \ Kept /\ Kept \subseteq U!Name
  BY <1>1, UnderNames, Names
<1>3. CASE /\ disk[U!Backup(u)] # Nothing
           /\ disk' = [disk EXCEPT ![U!Path(u)] = disk[U!Backup(u)],
                                   ![U!Backup(u)] = Nothing, ![U!Temp(u)] = Nothing]
           /\ U!Goes(u, "failed")
  <2>1. Went(u, "failed")
    BY <1>3, GoesWent DEF UpdatesInv, U!Pcs, U!Ended
  <2> DEFINE p == U!Path(u)
             b == U!Backup(u)
             t == U!Temp(u)
  <2>2. /\ p \in U!Name /\ b \in U!Name /\ t \in U!Name
        /\ p # b /\ p # t /\ b # t
    BY <1>2
  <2>3. disk' = [disk EXCEPT ![p] = disk[b], ![b] = Nothing, ![t] = Nothing]
    BY <1>3
  <2>4. disk \in [U!Name -> U!Binary \cup {Nothing}]
    BY DEF UpdatesInv, UpdatesTyped
  <2> HIDE DEF p, b, t
  <2>5. /\ disk' \in [U!Name -> U!Binary \cup {Nothing}]
        /\ disk'[p] = disk[b] /\ disk'[b] = Nothing /\ disk'[t] = Nothing
        /\ \A m \in U!Name \ {p, b, t} : disk'[m] = disk[m]
    BY <2>2, <2>3, <2>4
  <2> QED
    BY <1>1, <1>3, <2>1, <2>5, BackStep DEF p, b, t
<1>4. CASE U!Remove(U!Temp(u)) /\ U!GoesFaulty(u, "failed")
  <2>1. Went(u, "failed")
    BY <1>4, GoesWent DEF UpdatesInv, U!Pcs, U!Ended
  <2>2. \A m \in Kept : disk'[m] = disk[m]
    BY <1>2, <1>4, RemoveEffect DEF UpdatesInv
  <2>3. Under' = Under \ {u} /\ Handled' = Handled \ {u}
    BY <1>1, <2>1, EndsUnder DEF U!Ended
  <2>4. /\ \A v \in Under' : update'[v].path # <<>>
        /\ \A v \in Updates : U!Path(v)' = U!Path(v)
    BY <1>1, <2>1, PathsKept
  <2>5. UpdatesTyped'
    BY <1>1, <1>2, <1>4, <2>1, RemoveEffect, WentTyped DEF UpdatesInv, UpdatesTyped
  <2>6. Enough'
    <3>1. Slots \ {U!Path(u)} \subseteq Slots'
      BY <2>2, <2>3, <2>4 DEF Slots, Occupied, Handled
    <3> QED
      BY <1>1, <2>3, <2>4, <2>5, <3>1, EnoughEnds
  <2>7. Undisturbed'
    BY <1>1, <2>1, StaysUndisturbed DEF U!Ended
  <2>8. <<update[u].pc, "failed">> \in Shift
    BY <1>1 DEF Shift
  <2> QED
    BY <1>1, <1>4, <2>1, <2>6, <2>7, <2>8, DropStep
<1> QED
  BY <1>3, <1>4 DEF U!Unplace

LEMMA ConfirmKeeps ==
  ASSUME UpdatesInv, NEW u \in Updates, U!Confirm(u)
  PROVE  UpdatesInv'
<1>1. /\ update[u].pc = "placed" /\ disk' = disk /\ u \in Under
      /\ tried \subseteq Updates
  BY DEF U!Confirm, U!At, Under, InPlace, UpdatesInv, UpdatesTyped
<1>2. CASE /\ disk[U!Path(u)] # Nothing
           /\ tried' = tried \cup ({disk[U!Path(u)]} \ {Shipped})
           /\ U!Goes(u, "confirmed")
  <2>1. Went(u, "confirmed")
    BY <1>2, GoesWent DEF UpdatesInv, U!Pcs
  <2>2. disk[U!Path(u)] \in tried \cup {Shipped}
    BY <1>1, <1>2, UnderNames DEF UpdatesInv, InUse
  <2> QED
    BY <1>1, <1>2, <2>1, <2>2, StillStep DEF Still
<1>3. CASE U!Goes(u, "rejected") /\ tried' = tried
  <2>1. Went(u, "rejected")
    BY <1>3, GoesWent DEF UpdatesInv, U!Pcs
  <2> QED
    BY <1>1, <1>3, <2>1, StillStep DEF Still
<1> QED
  BY <1>2, <1>3 DEF U!Confirm

LEMMA DiscardKeeps ==
  ASSUME UpdatesInv, NEW u \in Updates, U!Discard(u)
  PROVE  UpdatesInv'
<1>1. /\ update[u].pc = "rejected" /\ tried' = tried /\ u \in Under /\ u \notin Handled
      /\ tried \subseteq Updates /\ U!Goes(u, "removed")
  BY DEF U!Discard, U!At, Under, Handled, InPlace, UpdatesInv, UpdatesTyped
<1>2. Went(u, "removed")
  BY <1>1, GoesWent DEF UpdatesInv, U!Pcs
<1>3. CASE disk' = disk
  BY <1>1, <1>2, <1>3, StillStep DEF Still
<1>4. CASE U!Remove(U!Path(u))
  <2>1. /\ U!Path(u) \in Kept /\ U!Backup(u) \in Kept /\ U!Path(u) # U!Backup(u)
        /\ U!Temp(u) \in U!Name \ Kept /\ Kept \subseteq U!Name
    BY <1>1, UnderNames, Names
  <2>2. /\ disk' \in [U!Name -> U!Binary \cup {Nothing}]
        /\ \A m \in Kept \ {U!Path(u)} : disk'[m] = disk[m]
    BY <1>4, <2>1, RemoveEffect DEF UpdatesInv
  <2>3. UpdatesTyped'
    BY <1>1, <1>2, <2>2, WentTyped DEF UpdatesInv
  <2>4. Under' = Under /\ Handled' = Handled \cup {u}
    BY <1>1, <1>2 DEF Under, Handled, InPlace, Went
  <2>5. /\ \A v \in Under' : update'[v].path # <<>>
        /\ \A v \in Updates : U!Path(v)' = U!Path(v)
    BY <1>1, <1>2, PathsKept
  <2>6. Enough'
    <3>1. U!Path(u) \in Slots' /\ {U!Path(v) : v \in Handled} \subseteq Slots'
      BY <2>4, <2>5 DEF Slots, Handled
    <3>2. Slots \subseteq Slots'
      BY <2>2, <3>1 DEF Slots, Occupied
    <3> QED
      BY <2>3, <2>4, <2>5, <3>2, EnoughGoesOn
  <2>7. Undisturbed'
    <3>1. update[u].clean =>
            update[u].path = <<U!Target>> /\ disk'[U!Backup(u)] = update[u].exe
      BY <1>1, <2>1, <2>2, UnderNames
    <3> QED
      BY <1>1, <1>2, <3>1, StaysUndisturbed DEF U!Ended
  <2>8. <<update[u].pc, "removed">> \in Shift
    BY <1>1 DEF Shift
  <2> QED
    BY <1>1, <1>2, <1>4, <2>6, <2>7, <2>8, DropStep
<1> QED
  BY <1>3, <1>4 DEF U!Discard

LEMMA RestoreKeeps ==
  ASSUME UpdatesInv, NEW u \in Updates, U!Restore(u)
  PROVE  UpdatesInv'
<1>1. /\ update[u].pc = "removed" /\ tried' = tried /\ u \in Under
      /\ tried \subseteq Updates
  BY DEF U!Restore, U!At, Under, Handled, UpdatesInv, UpdatesTyped
<1>2. CASE /\ disk[U!Backup(u)] # Nothing /\ U!Rename(U!Backup(u), U!Path(u))
           /\ U!Goes(u, "failed")
  <2>1. Went(u, "failed")
    BY <1>2, GoesWent DEF UpdatesInv, U!Pcs, U!Ended
  <2>2. /\ U!Path(u) \in U!Name /\ U!Backup(u) \in U!Name /\ U!Path(u) # U!Backup(u)
        /\ U!Temp(u) \in U!Name /\ U!Temp(u) # U!Path(u) /\ U!Temp(u) # U!Backup(u)
    BY <1>1, UnderNames, Names
  <2>3. /\ disk' \in [U!Name -> U!Binary \cup {Nothing}]
        /\ disk'[U!Backup(u)] = Nothing /\ disk'[U!Path(u)] = disk[U!Backup(u)]
        /\ \A m \in U!Name \ {U!Backup(u), U!Path(u)} : disk'[m] = disk[m]
    BY <1>2, <2>2, RenameEffect DEF UpdatesInv
  <2>4. disk'[U!Temp(u)] = disk[U!Temp(u)]
    BY <2>2, <2>3
  <2> QED
    BY <1>1, <1>2, <2>1, <2>3, <2>4, BackStep
<1>3. CASE U!GoesFaulty(u, "failed") /\ disk' = disk
  <2>1. Went(u, "failed")
    BY <1>3, GoesWent DEF UpdatesInv, U!Pcs, U!Ended
  <2> QED
    BY <1>1, <1>3, <2>1, StillStep DEF Still
<1> QED
  BY <1>2, <1>3 DEF U!Restore

LEMMA CleanupKeeps ==
  ASSUME UpdatesInv, NEW u \in Updates, U!Cleanup(u)
  PROVE  UpdatesInv'
<1>1. /\ update[u].pc = "confirmed" /\ tried' = tried /\ u \in Under
      /\ u \notin Handled /\ tried \subseteq Updates
  BY DEF U!Cleanup, U!At, Under, Handled, InPlace, UpdatesInv, UpdatesTyped
<1>2. CASE U!Remove(U!Backup(u)) /\ U!Goes(u, "updated")
  <2>1. Went(u, "updated")
    BY <1>2, GoesWent DEF UpdatesInv, U!Pcs, U!Ended
  <2>2. /\ U!Path(u) \in Kept /\ U!Backup(u) \in Kept
        /\ U!Temp(u) \in U!Name \ Kept /\ Kept \subseteq U!Name
    BY <1>1, UnderNames, Names
  <2>3. /\ disk' \in [U!Name -> U!Binary \cup {Nothing}]
        /\ \A m \in Kept \ {U!Backup(u)} : disk'[m] = disk[m]
    BY <1>2, <2>2, RemoveEffect DEF UpdatesInv
  <2>4. UpdatesTyped'
    BY <1>1, <2>1, <2>3, WentTyped DEF UpdatesInv
  <2>5. Under' = Under \ {u} /\ Handled' = Handled
    BY <1>1, <2>1, EndsUnder DEF U!Ended
  <2>6. /\ \A v \in Under' : update'[v].path # <<>>
        /\ \A v \in Updates : U!Path(v)' = U!Path(v)
    BY <1>1, <2>1, PathsKept
  <2>7. Enough'
    <3>1. {U!Path(v) : v \in Handled} \subseteq Slots'
      BY <2>5, <2>6 DEF Slots, Handled
    <3>2. Slots \ {U!Backup(u)} \subseteq Slots'
      BY <2>3, <3>1 DEF Slots, Occupied
    <3> QED
      BY <1>1, <2>4, <2>5, <2>6, <3>2, EnoughEnds
  <2>8. Undisturbed'
    BY <1>1, <2>1, StaysUndisturbed DEF U!Ended
  <2>9. <<update[u].pc, "updated">> \in Shift
    BY <1>1 DEF Shift
  <2> QED
    BY <1>1, <1>2, <2>1, <2>7, <2>8, <2>9, DropStep
<1>3. CASE U!GoesFaulty(u, "failed") /\ disk' = disk
  <2>1. Went(u, "failed")
    BY <1>3, GoesWent DEF UpdatesInv, U!Pcs, U!Ended
  <2> QED
    BY <1>1, <1>3, <2>1, StillStep DEF Still
<1> QED
  BY <1>2, <1>3 DEF U!Cleanup

LEMMA KilledKeeps ==
  ASSUME UpdatesInv, NEW u \in Updates, U!Killed(u)
  PROVE  UpdatesInv'
<1>1. /\ disk' = disk /\ tried' = tried /\ tried \subseteq Updates
      /\ update[u].pc \in U!Pcs \ U!Ended /\ U!Goes(u, "killed")
  BY DEF U!Killed, U!Running, UpdatesInv, UpdatesTyped, IsUpdate
<1>2. Went(u, "killed")
  BY <1>1, GoesWent DEF UpdatesInv, U!Pcs, U!Ended
<1> QED
  BY <1>1, <1>2, StillStep DEF Still

LEMMA UpdateStepKeeps == UpdatesInv /\ U!Next => UpdatesInv'
<1> SUFFICES ASSUME UpdatesInv, U!Next
             PROVE  UpdatesInv'
  OBVIOUS
<1>1. PICK u \in Updates :
        \/ \E forced \in BOOLEAN : U!Launch(u, forced)
        \/ \E release \in Versions : U!Check(u, release)
        \/ U!Unavailable(u) \/ U!Download(u) \/ U!Vet(u) \/ U!SetAside(u)
        \/ U!Place(u) \/ U!Unplace(u) \/ U!Confirm(u) \/ U!Discard(u)
        \/ U!Restore(u) \/ U!Cleanup(u) \/ U!Killed(u)
  BY DEF U!Next
<1> QED
  BY <1>1, LaunchKeeps, CheckKeeps, UnavailableKeeps, DownloadKeeps, VetKeeps,
     SetAsideKeeps, PlaceKeeps, UnplaceKeeps, ConfirmKeeps, DiscardKeeps,
     RestoreKeeps, CleanupKeeps, KilledKeeps

LEMMA UpdateStutter == UpdatesInv /\ UNCHANGED updateVars => UpdatesInv'
<1> SUFFICES ASSUME UpdatesInv, disk' = disk, tried' = tried, update' = update
             PROVE  UpdatesInv'
  BY DEF updateVars
<1>1. UpdatesTyped' /\ Candidates'
  BY DEF UpdatesInv, UpdatesTyped, Candidates
<1>2. InUse'
  BY DEF UpdatesInv, InUse, Out
<1>3. Under' = Under /\ Handled' = Handled /\ U!Running' = U!Running
  BY DEF Under, Handled, InPlace, U!Running
<1>4. Slots' = Slots
  BY <1>3 DEF Slots, Occupied, U!Path
<1>5. Apart' /\ Enough'
  BY <1>3, <1>4 DEF UpdatesInv, Apart, Enough
<1>6. Undisturbed'
  BY <1>3 DEF UpdatesInv, Undisturbed
<1> QED
  BY <1>1, <1>2, <1>5, <1>6 DEF UpdatesInv

LEMMA UpdateStarts == U!Init => UpdatesInv
<1> SUFFICES ASSUME U!Init
             PROVE  UpdatesInv
  OBVIOUS
<1> USE DEF U!Init
<1>1. /\ disk = [n \in U!Name |-> IF n = U!Target THEN Shipped ELSE Nothing]
      /\ tried = {} /\ update = [u \in Updates |-> U!Idle]
  OBVIOUS
<1>2. /\ U!Idle.pc = "idle" /\ U!Idle.exe = Shipped /\ U!Idle.path = <<>>
      /\ IsUpdate(U!Idle)
  <2>1. PICK f, c : f = FALSE /\ c = TRUE
    BY Zenon
  <2>2. f \in BOOLEAN /\ c \in BOOLEAN
    BY <2>1, Zenon
  <2> DEFINE i == U!Idle
  <2>3. i = [pc |-> "idle", exe |-> Shipped, path |-> <<>>, version |-> First,
             forced |-> f, clean |-> c]
    BY <2>1, Zenon DEF U!Idle
  <2> HIDE DEF i
  <2>4. i.pc = "idle" /\ i.exe = Shipped /\ i.path = <<>>
    BY <2>3
  <2>5. First \in Versions
    BY DEF Versions
  <2>6. IsUpdate(i)
    BY <2>2, <2>3, <2>5 DEF IsUpdate, U!Pcs, U!Ended, U!Binary
  <2> QED
    BY <2>4, <2>6 DEF i
<1>3. \A n \in Kept \ {U!Target} : disk[n] = Nothing
  BY <1>1, Names
<1>4. disk[U!Target] = Shipped /\ \A u \in Updates : disk[U!Temp(u)] = Nothing
  BY <1>1, Names
<1>5. \A u \in Updates :
        update[u].pc = "idle" /\ update[u].exe = Shipped /\ update[u].path = <<>>
  BY <1>1, <1>2
<1>6. UpdatesTyped
  BY <1>1, <1>2 DEF UpdatesTyped, U!Binary
<1>7. Candidates
  BY <1>4, <1>5 DEF Candidates
<1>8. InUse
  <2>1. Shipped \notin Updates /\ Nothing \notin Updates \cup {Shipped}
    BY UpdateAssumption
  <2> QED
    BY <1>3, <1>4, <1>5, <2>1, Names DEF InUse
<1>9. Under = {} /\ Handled = {}
  BY <1>5 DEF Under, Handled, InPlace
<1>10. Apart
  <2>1. \A u \in Updates : disk[U!Backup(u)] = Nothing
    BY <1>3, Names
  <2>2. \A u, v \in Updates : update[v].path # <<U!Backup(u)>>
    BY <1>5
  <2> QED
    BY <1>9, <2>1, <2>2 DEF Apart
<1>11. Enough
  <2>1. Slots = {U!Target}
    <3>1. U!Target \in Occupied /\ Occupied \subseteq {U!Target}
      BY <1>3, <1>4, UpdateAssumption, Names DEF Occupied
    <3> QED
      BY <1>9, <3>1 DEF Slots
  <2>2. Cardinality(Slots) = 1 /\ Cardinality(Under) = 0
    BY <1>9, <2>1, FS_Singleton, FS_EmptySet
  <2> QED
    BY <2>2 DEF Enough
<1>12. Undisturbed
  BY <1>5 DEF Undisturbed, U!Running, U!Ended
<1> QED
  BY <1>6, <1>7, <1>8, <1>10, <1>11, <1>12 DEF UpdatesInv

\* The invariant holds in every behaviour of any number of updates.
THEOREM UpdatesInvariant == ServicesSpec => []UpdatesInv
<1>1. ServicesInit => UpdatesInv
  BY UpdateStarts DEF ServicesInit
<1>2. UpdatesInv /\ [ServicesNext]_allVars => UpdatesInv'
  BY UpdateStepKeeps, UpdateStutter DEF ServicesNext, allVars
<1> QED
  BY <1>1, <1>2, PTL DEF ServicesSpec

-----------------------------------------------------------------------------
\* Not all names can be promised to updates that may still fail: there is one
\* more of them.
LEMMA SomeBinary == UpdatesInv => Occupied # {}
<1> SUFFICES ASSUME UpdatesInv, Occupied = {}
             PROVE  FALSE
  OBVIOUS
<1> DEFINE f == [u \in Handled |-> U!Path(u)]
<1>1. Slots = {U!Path(u) : u \in Handled}
  BY DEF Slots
<1>2. f \in [Handled -> Slots] /\ \A n \in Slots : \E u \in Handled : f[u] = n
  BY <1>1
<1> HIDE DEF f
<1>3. f \in Surjection(Handled, Slots)
  BY <1>2, Fun_IsSurj
<1>4. IsFiniteSet(Under) /\ IsFiniteSet(Slots)
  BY SlotsFinite DEF UpdatesInv, Apart
<1>5. Handled \subseteq Under
  BY DEF Under
<1>6. IsFiniteSet(Handled) /\ Cardinality(Handled) <= Cardinality(Under)
  BY <1>4, <1>5, FS_Subset
<1>7. Cardinality(Slots) <= Cardinality(Handled)
  BY <1>3, <1>6, FS_Surjection
<1>8. /\ Cardinality(Slots) \in Nat /\ Cardinality(Handled) \in Nat
      /\ Cardinality(Under) \in Nat
  BY <1>4, <1>6, FS_CardinalityType
<1>9. Cardinality(Slots) >= 1 + Cardinality(Under)
  BY DEF UpdatesInv, Enough
<1> QED
  BY <1>6, <1>7, <1>8, <1>9

\* However many updates overlap, fail or are killed at any of their steps, the
\* directory holds a binary that works.
THEOREM ABinarySurvives == ServicesSpec => []BinarySurvives
<1>1. UpdatesInv => BinarySurvives
  <2> SUFFICES ASSUME UpdatesInv
               PROVE  U!BinarySurvives
    BY DEF BinarySurvives
  <2>1. PICK n \in Kept : disk[n] # Nothing
    BY SomeBinary DEF Occupied
  <2>2. disk[n] \in tried \cup {Shipped}
    BY <2>1 DEF UpdatesInv, InUse
  <2> QED
    BY <2>2, Names DEF U!BinarySurvives
<1> QED
  BY <1>1, UpdatesInvariant, PTL

-----------------------------------------------------------------------------
LEMMA FaultyIsNotClean ==
  ASSUME UpdatesTyped, NEW u \in Updates, NEW pc \in U!Pcs, U!GoesFaulty(u, pc)
  PROVE  ~update'[u].clean
<1> DEFINE y == [update[u] EXCEPT !.pc = pc]
           f == [update EXCEPT ![u] = y]
<1>1. update = [v \in Updates |-> update[v]] /\ IsUpdate(update[u])
  BY DEF UpdatesTyped
<1>2. PICK c : c = FALSE
  BY Zenon
<1>3. update' = [f EXCEPT ![u].clean = c]
  BY <1>2, Zenon DEF U!GoesFaulty
<1>4. f = [v \in Updates |-> IF v = u THEN y ELSE update[v]]
  BY <1>1
<1>5. y = [pc |-> pc, exe |-> update[u].exe, path |-> update[u].path,
           version |-> update[u].version, forced |-> update[u].forced,
           clean |-> update[u].clean]
  BY <1>1 DEF IsUpdate
<1> HIDE DEF f, y
<1>6. update'[u] = [y EXCEPT !.clean = c]
  BY <1>3, <1>4
<1>7. update'[u].clean = c
  BY <1>5, <1>6
<1> QED
  BY <1>2, <1>7, Zenon

\* Which steps end an update in failure, and how.
LEMMA FailsBy ==
  ASSUME UpdatesInv, U!Next, NEW u \in Updates,
         update[u].pc # "failed", update'[u].pc = "failed"
  PROVE  \/ U!Unavailable(u) \/ U!Vet(u) \/ U!SetAside(u) \/ U!Unplace(u)
         \/ U!Restore(u) \/ U!Cleanup(u)
<1>1. PICK w \in Updates :
        \/ \E forced \in BOOLEAN : U!Launch(w, forced)
        \/ \E release \in Versions : U!Check(w, release)
        \/ U!Unavailable(w) \/ U!Download(w) \/ U!Vet(w) \/ U!SetAside(w)
        \/ U!Place(w) \/ U!Unplace(w) \/ U!Confirm(w) \/ U!Discard(w)
        \/ U!Restore(w) \/ U!Cleanup(w) \/ U!Killed(w)
  BY DEF U!Next
<1>2. UpdatesTyped
  BY DEF UpdatesInv
<1>3. ASSUME NEW pc \in U!Pcs, U!Goes(w, pc) \/ U!GoesFaulty(w, pc)
      PROVE  w = u /\ pc = "failed"
  BY <1>2, <1>3, GoesWent DEF Went
<1>4. CASE \E forced \in BOOLEAN : U!Launch(w, forced)
  <2>1. PICK forced \in BOOLEAN : U!Launch(w, forced)
    BY <1>4
  <2> DEFINE x == [U!Idle EXCEPT !.pc = "launched", !.exe = disk[U!Target],
                                 !.forced = forced, !.clean = U!Running = {}]
  <2>2. update'[u] = IF u = w THEN x
                     ELSE [update[u] EXCEPT !.clean = @ /\ u \notin U!Running]
    BY <2>1 DEF U!Launch
  <2>3. x.pc = "launched"
    BY DEF U!Idle
  <2>4. [update[u] EXCEPT !.clean = @ /\ u \notin U!Running].pc = update[u].pc
    BY <1>2 DEF UpdatesTyped, IsUpdate
  <2> HIDE DEF x
  <2> QED
    BY <2>2, <2>3, <2>4
<1>5. CASE \E release \in Versions : U!Check(w, release)
  <2>1. PICK release \in Versions : U!Check(w, release)
    BY <1>5
  <2>2. CASE U!Goes(w, "current")
    BY <1>3, <2>2 DEF U!Pcs, U!Ended
  <2>3. CASE update' = [update EXCEPT ![w].pc = "chosen", ![w].version = release,
                                      ![w].path = U!CurrentExe(update[w].exe)]
    BY <1>2, <2>3 DEF UpdatesTyped, IsUpdate
  <2> QED
    BY <2>1, <2>2, <2>3 DEF U!Check
<1>6. CASE U!Download(w) \/ U!Place(w) \/ U!Confirm(w) \/ U!Discard(w) \/ U!Killed(w)
  BY <1>3, <1>6
     DEF U!Download, U!Place, U!Confirm, U!Discard, U!Killed, U!Pcs, U!Ended
<1>7. CASE \/ U!Unavailable(w) \/ U!Vet(w) \/ U!SetAside(w) \/ U!Unplace(w)
           \/ U!Restore(w) \/ U!Cleanup(w)
  <2>1. \E pc \in U!Pcs : U!Goes(w, pc) \/ U!GoesFaulty(w, pc)
    BY <1>7 DEF U!Unavailable, U!Vet, U!SetAside, U!Unplace, U!Restore, U!Cleanup,
                U!Pcs, U!Ended
  <2>2. w = u
    BY <1>3, <2>1
  <2> QED
    BY <1>7, <2>2
<1> QED
  BY <1>1, <1>4, <1>5, <1>6, <1>7

\* An update that no other overlaps and no file operation fails, and that ends
\* in failure, leaves the binary it ran as where it found it.
THEOREM AFailedUpdateRestores == ServicesSpec => FailedUpdateRestores
<1>1. ASSUME UpdatesInv, U!Next, NEW u \in Updates,
             update[u].pc # "failed", update'[u].pc = "failed", update'[u].clean
      PROVE  disk'[U!Target] = update[u].exe
  <2> USE DEF UpdatesInv
  <2>1. \/ U!Unavailable(u) \/ U!Vet(u) \/ U!SetAside(u) \/ U!Unplace(u)
        \/ U!Restore(u) \/ U!Cleanup(u)
    BY <1>1, FailsBy
  <2>2. ~U!GoesFaulty(u, "failed")
    BY <1>1, FaultyIsNotClean DEF U!Pcs, U!Ended
  <2>3. Went(u, "failed") \/ Went(u, "vetted") \/ Went(u, "moved") \/ Went(u, "updated")
    BY <1>1, <2>1, <2>2, GoesWent
       DEF U!Unavailable, U!Vet, U!SetAside, U!Unplace, U!Restore, U!Cleanup,
           U!Pcs, U!Ended
  <2>4. Went(u, "failed") /\ update[u].clean
    BY <1>1, <2>3 DEF Went
  <2>5. ASSUME update[u].pc \in {"launched", "chosen", "written"}
        PROVE  disk[U!Target] = update[u].exe
    BY <1>1, <2>4, <2>5 DEF Undisturbed, U!Running, U!Ended
  <2>6. CASE U!Unavailable(u)
    BY <2>5, <2>6 DEF U!Unavailable
  <2>7. CASE U!Vet(u)
    <3>1. U!Remove(U!Temp(u)) \/ disk' = disk
      BY <2>7 DEF U!Vet
    <3>2. disk'[U!Target] = disk[U!Target]
      BY <1>1, <3>1, RemoveEffect, Names
    <3> QED
      BY <2>5, <2>7, <3>2 DEF U!Vet, U!At
  <2>8. ASSUME U!Unplace(u) \/ U!Restore(u)
        PROVE  /\ u \in Under /\ U!Path(u) = U!Target
               /\ disk[U!Backup(u)] = update[u].exe
    <3>1. u \in Under
      BY <2>8 DEF U!Unplace, U!Restore, U!At, Under, Handled
    <3> QED
      BY <1>1, <2>4, <3>1, UnderNames DEF U!Path
  <2>9. CASE U!Unplace(u)
    <3>1. disk' = [disk EXCEPT ![U!Path(u)] = disk[U!Backup(u)],
                               ![U!Backup(u)] = Nothing, ![U!Temp(u)] = Nothing]
      BY <2>2, <2>9 DEF U!Unplace
    <3>2. U!Target # U!Backup(u) /\ U!Target # U!Temp(u) /\ U!Target \in U!Name
      BY Names
    <3> QED
      BY <1>1, <2>8, <2>9, <3>1, <3>2 DEF UpdatesTyped
  <2>10. CASE U!Restore(u)
    <3>1. U!Rename(U!Backup(u), U!Path(u))
      BY <2>2, <2>10 DEF U!Restore
    <3>2. U!Backup(u) \in U!Name /\ U!Target \in U!Name /\ U!Backup(u) # U!Target
      BY Names
    <3> QED
      BY <1>1, <2>8, <2>10, <3>1, <3>2, RenameEffect
  <2>11. CASE U!SetAside(u)
    <3>1. U!Goes(u, "moved")
      BY <2>2, <2>11 DEF U!SetAside
    <3>2. Went(u, "moved")
      BY <1>1, <3>1, GoesWent DEF U!Pcs
    <3> QED
      BY <1>1, <3>2 DEF Went
  <2>12. CASE U!Cleanup(u)
    <3>1. U!Goes(u, "updated")
      BY <2>2, <2>12 DEF U!Cleanup
    <3>2. Went(u, "updated")
      BY <1>1, <3>1, GoesWent DEF U!Pcs, U!Ended
    <3> QED
      BY <1>1, <3>2 DEF Went
  <2> QED
    BY <2>1, <2>6, <2>7, <2>9, <2>10, <2>11, <2>12
<1> DEFINE Restores == \A u \in Updates :
             ~U!At(u, "failed") /\ update'[u].pc = "failed" /\ update'[u].clean
               => disk'[U!Target] = update[u].exe
<1>2. UpdatesInv /\ [ServicesNext]_allVars => [Restores]_(U!vars)
  <2> SUFFICES ASSUME UpdatesInv, [ServicesNext]_allVars
               PROVE  [Restores]_(U!vars)
    OBVIOUS
  <2>1. U!Next \/ UNCHANGED updateVars
    BY DEF ServicesNext, allVars
  <2>2. CASE U!Next
    BY <1>1, <2>2 DEF U!At
  <2>3. CASE UNCHANGED updateVars
    BY <2>3 DEF updateVars, U!vars
  <2> QED
    BY <2>1, <2>2, <2>3
<1> QED
  BY <1>2, UpdatesInvariant, PTL DEF ServicesSpec, FailedUpdateRestores, U!FailedUpdateRestores

-----------------------------------------------------------------------------
(***************************************************************************)
(* The models.  A client asks by the alias of what it was told; what it    *)
(* was told, and of which configuration, is remembered until it is told    *)
(* anew (ToldInv), so a request is judged by what it was told whatever was *)
(* switched since.                                                         *)
(***************************************************************************)

\* What a client was told of a configuration.
ToldOf(c, m, by) ==
  IF by = "settings" THEN m = D!Alias(D!Effective(c))
  ELSE \/ D!Given(c.model) /\ m = c.model
       \/ /\ ~D!Given(c.model)
          /\ D!OneMillion(m) \/ (c.upstream = "zen" /\ m = D!Prefixed("mimo-v2.5-free"))

ToldInv ==
  /\ told.of \subseteq D!Config
  /\ told.by \in {"nobody", "name", "settings", "exports", "launch"}
  /\ \A c \in told.of : ToldOf(c, told.model, told.by)

ChoiceInv == D!TypeOK /\ ToldInv /\ D!ServedAsTold

LEMMA Windows ==
  ASSUME NEW m \in D!Name
  PROVE  /\ D!Window(m) \in Nat
         /\ D!OneMillion(m) =>
              m.id \in {"muse-spark-1.3-contributor-free", "x-preview-f-free",
                        "deepseek-v4-flash-free", "z-ai/glm-5.3-flash", "deepseek-v4-flash",
                        "glm-5.3-flash", "sonnet[1m]", "deepseek-r1"}
         /\ m.id \in {"muse-spark-1.3-contributor-free", "x-preview-f-free",
                      "deepseek-v4-flash-free", "z-ai/glm-5.3-flash", "deepseek-v4-flash",
                      "glm-5.3-flash", "sonnet[1m]", "deepseek-r1"} => D!OneMillion(m)
BY DEF D!Window, D!OneMillion, D!Claude

LEMMA SomeNames ==
  /\ \A id \in D!Id, prefixed \in BOOLEAN : [id |-> id, prefixed |-> prefixed] \in D!Name
  /\ \A m \in D!Name : m.id \in D!Id
  /\ \A id : D!Plain(id).id = id /\ D!Prefixed(id).id = id
  /\ \A id \in D!Id : D!Plain(id) \in D!Name /\ D!Prefixed(id) \in D!Name
BY DEF D!Name, D!Plain, D!Prefixed

LEMMA SomeIds ==
  {"x-preview-f-free", "deepseek-v4-flash-free", "mimo-v2.5-free", "nemotron-3-ultra-free",
   "z-ai/glm-5.3-flash", "glm-5.3-flash", "qwen3.8-flash", "claude-opus-5",
   "claude-sonnet-5", "claude-3-5-sonnet", "sonnet[1m]", ""} \subseteq D!Id
BY DEF D!Id, D!Free, D!Cline, D!Api, D!Claude

LEMMA Mapping ==
  ASSUME NEW c \in D!Config, NEW m \in D!Name
  PROVE  /\ D!Mapped(c, m) \in D!Name
         /\ D!OneMillion(m) => D!OneMillion(D!Mapped(c, m))
         /\ ~D!OneMillion(m) /\ m.id \notin D!Claude => D!Mapped(c, m).id = m.id
         /\ m.id = "" => D!Mapped(c, m).id = ""
<1>1. m.id \in D!Id
  BY SomeNames
<1>2. D!Canonical(m.id) \in D!Id
  BY <1>1, SomeIds DEF D!Canonical
<1>3. D!Mapped(c, m) \in D!Name
  BY <1>2, SomeNames DEF D!Mapped
<1>4. D!Mapped(c, m).id = m.id \/ D!Mapped(c, m).id = D!Canonical(m.id)
  BY SomeNames DEF D!Mapped
<1>5. D!OneMillion(m) => D!OneMillion(D!Mapped(c, m))
  <2> SUFFICES ASSUME D!OneMillion(m) PROVE D!OneMillion(D!Mapped(c, m))
    OBVIOUS
  <2>1. D!Canonical(m.id) \in {m.id, "deepseek-v4-flash-free", "x-preview-f-free"}
    BY DEF D!Canonical
  <2> QED
    BY <2>1, <1>3, <1>4, Windows
<1>6. ~D!OneMillion(m) /\ m.id \notin D!Claude => D!Canonical(m.id) = m.id
  BY Windows DEF D!Canonical
<1>7. m.id = "" => D!Canonical(m.id) = ""
  BY DEF D!Canonical, D!Claude
<1> QED
  BY <1>3, <1>4, <1>5, <1>6, <1>7

LEMMA Aliases ==
  ASSUME NEW m \in D!Name
  PROVE  /\ D!Alias(m) \in D!Name
         /\ D!OneMillion(m) => D!Alias(m).id = "sonnet[1m]"
         /\ ~D!OneMillion(m) /\ m.id \in D!Claude => D!Alias(m).id = "claude-opus-5"
         /\ ~D!OneMillion(m) /\ m.id \notin D!Claude => D!Alias(m).id = "claude-sonnet-5"
<1>1. /\ D!Plain("sonnet[1m]") \in D!Name /\ D!Plain("claude-opus-5") \in D!Name
      /\ D!Plain("claude-sonnet-5") \in D!Name
  BY SomeNames, SomeIds
<1>2. /\ D!Plain("sonnet[1m]").id = "sonnet[1m]"
      /\ D!Plain("claude-opus-5").id = "claude-opus-5"
      /\ D!Plain("claude-sonnet-5").id = "claude-sonnet-5"
  BY SomeNames
<1>3. m.id \in D!Claude => ~D!OneMillion(m)
  BY Windows DEF D!Claude
<1> QED
  BY <1>1, <1>2, <1>3 DEF D!Alias

LEMMA LargeAndSmall ==
  ASSUME NEW c \in D!Config
  PROVE  /\ D!Large(c) \in D!Name /\ D!OneMillion(D!Large(c))
         /\ D!Small(c) \in D!Name
         /\ ~D!Given(c.model) /\ c.upstream = "zen"
              => D!Small(c) = D!Prefixed("mimo-v2.5-free") \/ D!OneMillion(D!Small(c))
<1>1. /\ D!Prefixed("x-preview-f-free") \in D!Name /\ D!Plain("z-ai/glm-5.3-flash") \in D!Name
      /\ D!Plain("glm-5.3-flash") \in D!Name /\ D!Prefixed("mimo-v2.5-free") \in D!Name
      /\ D!Plain("qwen3.8-flash") \in D!Name
  BY SomeNames, SomeIds
<1>2. /\ D!OneMillion(D!Prefixed("x-preview-f-free"))
      /\ D!OneMillion(D!Plain("z-ai/glm-5.3-flash")) /\ D!OneMillion(D!Plain("glm-5.3-flash"))
  BY <1>1, Windows, SomeNames
<1>3. D!Kind(c) = "zen" \/ D!Kind(c) = c.upstream
  BY DEF D!Kind
<1> QED
  BY <1>1, <1>2, <1>3 DEF D!Large, D!Small

\* The models a request by an alias gets first.
LEMMA Resolved ==
  ASSUME NEW c \in D!Config, NEW m \in D!Name
  PROVE  /\ D!ResolveAnonymous(c, m) \in D!Name
         /\ m.id \in {"sonnet[1m]", "claude-opus-5"} =>
              /\ D!OneMillion(D!ResolveAnonymous(c, m))
              /\ D!Given(c.model) /\ D!OneMillion(c.model) => D!ResolveAnonymous(c, m) = c.model
         /\ m.id = "claude-sonnet-5" =>
              IF D!Given(c.model) /\ ~D!OneMillion(c.model)
              THEN D!ResolveAnonymous(c, m) = c.model
              ELSE D!ResolveAnonymous(c, m) \in {c.model, D!Small(c)}
         /\ m.id = "claude-sonnet-5" /\ ~D!Given(c.model) =>
              D!ResolveAnonymous(c, m) = D!Small(c)
<1>1. c.model \in D!Name
  BY DEF D!Config
<1>2. D!Plain("z-ai/glm-5.3-flash") \in D!Name /\ D!DefaultModel \in D!Name
  BY SomeNames, SomeIds DEF D!DefaultModel
<1>3. D!ResolveAnonymous(c, m) \in D!Name
  BY <1>1, <1>2, LargeAndSmall DEF D!ResolveAnonymous
<1>4. ASSUME m.id \in {"sonnet[1m]", "claude-opus-5"}
      PROVE  D!ResolveAnonymous(c, m) =
               IF D!Given(c.model) /\ D!OneMillion(c.model) THEN c.model ELSE D!Large(c)
  BY <1>4 DEF D!ResolveAnonymous
<1>5. ASSUME m.id = "claude-sonnet-5"
      PROVE  D!ResolveAnonymous(c, m) =
               IF D!Given(c.model) /\ (D!OneMillion(c.model) => D!Kind(c) = "cline")
               THEN c.model ELSE D!Small(c)
  BY <1>5 DEF D!ResolveAnonymous
<1> QED
  BY <1>3, <1>4, <1>5, LargeAndSmall

\* The models after the first.
LEMMA OthersLarge ==
  ASSUME D!TypeOK, NEW first \in D!Name, NEW stream \in BOOLEAN,
         NEW x \in D!Others(first, stream)
  PROVE  /\ retry.fallbacks = {} =>
              D!OneMillion(x) \/ (first.id = "nemotron-3-ultra-free" /\ x = first)
              \/ (first.id = "nemotron-3-ultra-free" /\ x.id = first.id)
         /\ /\ D!OneMillion(first)
            /\ \/ retry.fallbacks = {}
               \/ \E m \in retry.fallbacks : D!OneMillion(D!Mapped(server, m))
            => D!OneMillion(x)
<1> DEFINE configured == {D!Mapped(server, m) : m \in retry.fallbacks}
           large == {m \in configured : D!OneMillion(m)}
<1>1. /\ D!OneMillion(D!Plain("deepseek-v4-flash-free"))
      /\ D!Plain("nemotron-3-ultra-free").id = "nemotron-3-ultra-free"
  BY Windows, SomeNames, SomeIds
<1>2. CASE retry.fallbacks = {}
  <2>1. configured = {}
    BY <1>2
  <2>2. \/ D!OneMillion(first) /\ x = D!Plain("deepseek-v4-flash-free")
        \/ /\ first.id = "nemotron-3-ultra-free"
           /\ x \in {D!Plain("deepseek-v4-flash-free"), D!Plain("nemotron-3-ultra-free")}
    BY <2>1 DEF D!Others
  <2>3. D!OneMillion(first) => first.id # "nemotron-3-ultra-free"
    BY Windows
  <2> QED
    BY <2>2, <2>3, <1>1
<1>3. CASE retry.fallbacks # {}
  <2> SUFFICES ASSUME D!OneMillion(first),
                      NEW m \in retry.fallbacks, D!OneMillion(D!Mapped(server, m))
               PROVE  D!OneMillion(x)
    BY <1>3
  <2>1. D!Mapped(server, m) \in large
    OBVIOUS
  <2>2. D!Others(first, stream) = large
    BY <2>1 DEF D!Others
  <2> QED
    BY <2>2
<1> QED
  BY <1>2, <1>3

\* A request of the client by its alias is answered as it was told.
LEMMA ServesAsTold ==
  ASSUME D!TypeOK, ToldInv, told # D!Nobody, NEW stream \in BOOLEAN,
         NEW by \in {"anonymous", "key"}, NEW first,
         first = IF by = "key" THEN D!Alias(told.model)
                 ELSE D!ResolveAnonymous(server, D!Alias(told.model))
  PROVE
    LET models == {D!Mapped(server, first)} \cup D!Others(D!Mapped(server, first), stream)
    IN /\ /\ D!OneMillion(told.model)
          /\ \/ retry.fallbacks = {}
             \/ \E m \in retry.fallbacks : D!OneMillion(D!Mapped(server, m))
          => \A m \in models : D!OneMillion(m)
       /\ server \in told.of /\ by = "anonymous" =>
            /\ retry.fallbacks = {} =>
                 \A m \in models : D!OneMillion(m) \/ D!Window(m) >= D!Window(told.model)
            /\ told.by # "settings" /\ D!Given(server.model) /\ server.model.id \notin D!Claude
                 => D!Mapped(server, first) = D!Mapped(server, server.model)
<1> DEFINE asked == D!Alias(told.model)
           sent == D!Mapped(server, first)
           models == {sent} \cup D!Others(sent, stream)
<1>1. /\ server \in D!Config /\ server.model \in D!Name /\ told.model \in D!Name
      /\ asked \in D!Name
  BY Aliases DEF D!TypeOK, D!Config
<1>2. first \in D!Name /\ sent \in D!Name
  BY <1>1, Resolved, Mapping
<1>3. D!OneMillion(told.model) => D!OneMillion(first) /\ D!OneMillion(sent)
  <2> SUFFICES ASSUME D!OneMillion(told.model) PROVE D!OneMillion(first)
    BY <1>1, <1>2, Mapping
  <2>1. asked.id = "sonnet[1m]"
    BY <1>1, Aliases
  <2> QED
    BY <1>1, <2>1, Resolved, Windows
<1>4. ASSUME D!OneMillion(told.model),
             \/ retry.fallbacks = {}
             \/ \E m \in retry.fallbacks : D!OneMillion(D!Mapped(server, m)),
             NEW m \in models
      PROVE  D!OneMillion(m)
  BY <1>2, <1>3, <1>4, OthersLarge
<1>5. ASSUME server \in told.of, by = "anonymous"
      PROVE  /\ D!OneMillion(first) \/ (/\ D!Window(sent) >= D!Window(told.model)
                                        /\ sent.id = told.model.id)
             /\ told.by # "settings" /\ D!Given(server.model) /\ server.model.id \notin D!Claude
                  => first = server.model
  <2>1. first = D!ResolveAnonymous(server, asked)
    BY <1>5
  <2>2. ToldOf(server, told.model, told.by)
    BY <1>5 DEF ToldInv
  <2>3. CASE D!OneMillion(told.model)
    <3>1. asked.id = "sonnet[1m]" /\ D!OneMillion(first)
      BY <1>1, <1>3, <2>3, Aliases
    <3>2. told.by # "settings" /\ D!Given(server.model) => first = server.model
      BY <1>1, <2>1, <2>2, <2>3, <3>1, Resolved DEF ToldOf
    <3> QED
      BY <3>1, <3>2
  <2>4. CASE ~D!OneMillion(told.model) /\ told.model.id \in D!Claude
    <3>1. asked.id = "claude-opus-5"
      BY <1>1, <2>4, Aliases
    <3>2. D!OneMillion(first)
      BY <1>1, <2>1, <3>1, Resolved
    <3>3. told.by # "settings" /\ D!Given(server.model) => server.model.id \in D!Claude
      BY <2>2, <2>4 DEF ToldOf
    <3> QED
      BY <3>2, <3>3
  <2>5. CASE ~D!OneMillion(told.model) /\ told.model.id \notin D!Claude
    <3>1. asked.id = "claude-sonnet-5"
      BY <1>1, <2>5, Aliases
    <3>2. told.by # "settings"
      <4> SUFFICES ASSUME told.by = "settings" PROVE FALSE
        OBVIOUS
      <4>1. told.model = D!Alias(D!Effective(server))
        BY <2>2 DEF ToldOf
      <4>2. D!Effective(server) \in D!Name
        BY <1>1, SomeNames, SomeIds DEF D!Effective
      <4>3. told.model.id \in {"sonnet[1m]", "claude-opus-5", "claude-sonnet-5"}
        BY <4>1, <4>2, Aliases
      <4> QED
        BY <1>1, <2>5, <4>3, Windows DEF D!Claude
    <3>3. CASE D!Given(server.model) /\ told.model = server.model
      <4>1. first = server.model
        BY <1>1, <2>1, <2>5, <3>1, <3>3, Resolved
      <4>2. sent.id = told.model.id
        BY <1>1, <2>5, <3>3, <4>1, Mapping
      <4>3. D!Window(sent) = D!Window(told.model)
        BY <4>2 DEF D!Window
      <4> QED
        BY <1>1, <4>1, <4>2, <4>3, Windows
    <3>4. CASE /\ ~D!Given(server.model) /\ server.upstream = "zen"
               /\ told.model = D!Prefixed("mimo-v2.5-free")
      <4>1. first = D!Small(server)
        BY <1>1, <2>1, <3>1, <3>4, Resolved
      <4>2. first = told.model \/ D!OneMillion(first)
        BY <1>1, <3>4, <4>1, LargeAndSmall
      <4>3. CASE first = told.model
        <5>1. sent.id = told.model.id
          BY <1>1, <2>5, <4>3, Mapping
        <5>2. D!Window(sent) = D!Window(told.model)
          BY <5>1 DEF D!Window
        <5> QED
          BY <1>1, <3>4, <5>1, <5>2, Windows
      <4> QED
        BY <3>4, <4>2, <4>3
    <3> QED
      BY <2>2, <2>5, <3>2, <3>3, <3>4 DEF ToldOf
  <2> QED
    BY <2>3, <2>4, <2>5
<1>6. ASSUME server \in told.of, by = "anonymous", retry.fallbacks = {}, NEW m \in models
      PROVE  D!OneMillion(m) \/ D!Window(m) >= D!Window(told.model)
  <2>1. CASE D!OneMillion(first)
    <3>1. D!OneMillion(sent)
      BY <1>1, <1>2, <2>1, Mapping
    <3> QED
      BY <1>2, <1>6, <3>1, OthersLarge
  <2>2. CASE D!Window(sent) >= D!Window(told.model) /\ sent.id = told.model.id
    <3>1. CASE m = sent
      BY <2>2, <3>1
    <3>2. CASE m \in D!Others(sent, stream)
      <4>1. D!OneMillion(m) \/ m.id = sent.id
        BY <1>2, <1>6, <3>2, OthersLarge
      <4>2. m.id = sent.id => D!Window(m) = D!Window(sent)
        BY DEF D!Window
      <4> QED
        BY <2>2, <4>1, <4>2
    <3> QED
      BY <3>1, <3>2
  <2> QED
    BY <1>5, <1>6, <2>1, <2>2
<1>7. ASSUME server \in told.of, by = "anonymous", told.by # "settings",
             D!Given(server.model), server.model.id \notin D!Claude
      PROVE  sent = D!Mapped(server, server.model)
  BY <1>5, <1>7
<1> HIDE DEF asked
<1> QED
  BY <1>4, <1>6, <1>7

\* A request whose models are chosen.
LEMMA ChooseKeeps ==
  ASSUME ChoiceInv, NEW asked \in D!Name, NEW by, NEW first \in D!Name,
         NEW stream \in BOOLEAN, D!Choose(asked, by, first, stream),
         by = "key" /\ D!Given(asked) => first = asked,
         by = "anonymous" => first = D!ResolveAnonymous(server, asked)
  PROVE  ChoiceInv'
<1> DEFINE sent == D!Mapped(server, first)
           models == {sent} \cup D!Others(sent, stream)
<1>1. /\ request' = [asked |-> asked, by |-> by, first |-> sent, models |-> models]
      /\ UNCHANGED <<config, server, retry, told>>
  BY DEF D!Choose
<1>2. D!TypeOK /\ ToldInv
  BY DEF ChoiceInv
<1>3. server \in D!Config /\ sent \in D!Name
  BY <1>2, Mapping DEF D!TypeOK
<1>4. models \subseteq D!Name
  <2> SUFFICES ASSUME NEW x \in D!Others(sent, stream) PROVE x \in D!Name
    BY <1>3
  <2>1. \A m \in retry.fallbacks : m \in D!Name
    <3>1. Small \in D!Name
      BY DEF Small, D!Name, D!Id, D!Free
    <3>2. [Small EXCEPT !.id = "deepseek-v4-flash"] \in D!Name
      BY <3>1 DEF D!Name, D!Id, D!Api
    <3>3. retry.fallbacks \in Fallbacks
      BY <1>2 DEF D!TypeOK
    <3> QED
      BY <3>1, <3>2, <3>3 DEF Fallbacks
  <2>2. \A m \in retry.fallbacks : D!Mapped(server, m) \in D!Name
    BY <1>3, <2>1, Mapping
  <2>3. \/ x \in {D!Plain("deepseek-v4-flash-free"), D!Plain("nemotron-3-ultra-free")}
        \/ \E m \in retry.fallbacks : x = D!Mapped(server, m)
    BY DEF D!Others
  <2> QED
    BY <2>2, <2>3, SomeNames, SomeIds
<1> HIDE DEF sent, models
<1>5. D!TypeOK'
  BY <1>1, <1>2, <1>3, <1>4 DEF D!TypeOK
<1>6. ToldInv'
  BY <1>1, <1>2 DEF ToldInv
<1>7. D!ServedAsTold'
  <2> SUFFICES ASSUME told # D!Nobody, asked = D!Alias(told.model),
                      by \in {"anonymous", "key"}
               PROVE  D!ServedAsTold'
    BY <1>1 DEF D!ServedAsTold, D!AsTold
  <2>1. asked.id # ""
    BY <1>2, Aliases DEF D!TypeOK
  <2>2. first = IF by = "key" THEN D!Alias(told.model)
                ELSE D!ResolveAnonymous(server, D!Alias(told.model))
    BY <2>1 DEF D!Given
  <2>3. /\ /\ D!OneMillion(told.model)
           /\ \/ retry.fallbacks = {}
              \/ \E m \in retry.fallbacks : D!OneMillion(D!Mapped(server, m))
           => \A m \in models : D!OneMillion(m)
        /\ server \in told.of /\ by = "anonymous" =>
             /\ retry.fallbacks = {} =>
                  \A m \in models : D!OneMillion(m) \/ D!Window(m) >= D!Window(told.model)
             /\ told.by # "settings" /\ D!Given(server.model) /\ server.model.id \notin D!Claude
                  => sent = D!Mapped(server, server.model)
    BY <1>2, <2>2, ServesAsTold DEF sent, models
  <2> QED
    BY <1>1, <2>3 DEF D!ServedAsTold
<1> QED
  BY <1>5, <1>6, <1>7 DEF ChoiceInv

\* Nothing is asked while the operator or the client's setup changes something.
LEMMA QuietKeeps ==
  ASSUME ChoiceInv, D!Quiet, config' \in D!Config, server' \in D!Config,
         told'.model \in D!Name, ToldInv'
  PROVE  ChoiceInv'
<1>1. request = D!NoRequest /\ request' = D!NoRequest /\ UNCHANGED retry
  BY DEF D!Quiet
<1>2. D!TypeOK'
  BY <1>1 DEF ChoiceInv, D!TypeOK
<1>3. D!ServedAsTold'
  BY <1>1 DEF D!ServedAsTold, D!AsTold, D!NoRequest
<1> QED
  BY <1>2, <1>3 DEF ChoiceInv

LEMMA SaveKeeps ==
  ASSUME ChoiceInv, NEW upstream \in D!Upstream, NEW m \in D!Name, D!Save(upstream, m)
  PROVE  ChoiceInv'
<1>1. /\ D!Quiet /\ config' = [upstream |-> upstream, model |-> m]
      /\ UNCHANGED <<server, told>>
  BY DEF D!Save
<1>2. ToldInv'
  BY <1>1 DEF ChoiceInv, ToldInv
<1>3. config' \in D!Config
  BY <1>1 DEF D!Config
<1> QED
  BY <1>1, <1>2, <1>3, QuietKeeps DEF ChoiceInv, D!TypeOK

LEMMA TellKeeps ==
  ASSUME ChoiceInv, NEW m \in D!Name, NEW of \in SUBSET D!Config,
         NEW by \in {"name", "settings", "exports"}, D!Tell(m, of, by),
         \A c \in of : ToldOf(c, m, by)
  PROVE  ChoiceInv'
<1>1. /\ D!Quiet /\ told' = [model |-> m, of |-> of, by |-> by]
      /\ UNCHANGED <<config, server>>
  BY DEF D!Tell
<1>2. ToldInv'
  BY <1>1 DEF ToldInv
<1> QED
  BY <1>1, <1>2, QuietKeeps DEF ChoiceInv, D!TypeOK

LEMMA EffectiveTold ==
  ASSUME NEW c \in D!Config
  PROVE  /\ D!Effective(c) \in D!Name
         /\ ToldOf(c, D!Effective(c), "exports")
         /\ ToldOf(c, D!Alias(D!Effective(c)), "settings")
<1>1. /\ D!Prefixed("x-preview-f-free") \in D!Name
      /\ D!OneMillion(D!Prefixed("x-preview-f-free"))
  BY SomeNames, SomeIds, Windows
<1>2. c.model \in D!Name
  BY DEF D!Config
<1> QED
  BY <1>1, <1>2 DEF D!Effective, ToldOf

LEMMA ChoiceLaunch == ChoiceInv /\ D!Launch => ChoiceInv'
<1> SUFFICES ASSUME ChoiceInv, D!Launch PROVE ChoiceInv'
  OBVIOUS
<1> DEFINE default == CASE config.upstream = "zen" -> D!Prefixed("mimo-v2.5-free")
                        [] config.upstream = "cline" -> D!Plain("z-ai/glm-5.3-flash")
                        [] OTHER -> D!Plain("glm-5.3-flash")
           m == IF D!Given(config.model) THEN config.model ELSE default
<1>1. /\ D!Quiet /\ server' \in {server, D!Started(m)}
      /\ told' = [model |-> m, of |-> {config, D!Started(m)}, by |-> "launch"]
      /\ UNCHANGED config
  BY DEF D!Launch
<1>2. /\ config \in D!Config /\ server \in D!Config /\ config.model \in D!Name
      /\ config.upstream \in D!Upstream
  BY DEF ChoiceInv, D!TypeOK, D!Config
<1>3. /\ D!Prefixed("mimo-v2.5-free") \in D!Name /\ D!Plain("z-ai/glm-5.3-flash") \in D!Name
      /\ D!Plain("glm-5.3-flash") \in D!Name
  BY SomeNames, SomeIds
<1>4. D!OneMillion(D!Plain("z-ai/glm-5.3-flash")) /\ D!OneMillion(D!Plain("glm-5.3-flash"))
  BY <1>3, SomeNames, Windows
<1>5. /\ default \in D!Name /\ default.id # ""
      /\ D!OneMillion(default)
         \/ (config.upstream = "zen" /\ default = D!Prefixed("mimo-v2.5-free"))
  BY <1>3, <1>4, SomeNames
<1> HIDE DEF default
<1>6. m \in D!Name /\ D!Given(m)
  BY <1>2, <1>5 DEF D!Given
<1>7. ToldOf(config, m, "launch")
  BY <1>5 DEF ToldOf
<1> HIDE DEF m
<1>8. D!Started(m) \in D!Config /\ D!Started(m).model = m
  BY <1>2, <1>6 DEF D!Started, D!Config
<1>9. ToldOf(D!Started(m), m, "launch")
  BY <1>6, <1>8 DEF ToldOf
<1>10. ToldInv'
  BY <1>1, <1>2, <1>7, <1>8, <1>9 DEF ToldInv
<1> QED
  BY <1>1, <1>2, <1>6, <1>8, <1>10, QuietKeeps

LEMMA ModelStepKeeps == ChoiceInv /\ D!Next => ChoiceInv'
<1> SUFFICES ASSUME ChoiceInv, D!Next PROVE ChoiceInv'
  OBVIOUS
<1>1. D!TypeOK /\ ToldInv /\ config \in D!Config /\ server \in D!Config
  BY DEF ChoiceInv, D!TypeOK
<1>2. /\ config.upstream \in D!Upstream /\ config.model \in D!Name
      /\ server.model \in D!Name /\ told.model \in D!Name
  BY <1>1 DEF D!Config, D!TypeOK
<1>3. Chosen \subseteq D!Name /\ Typed \subseteq D!Name
  BY SomeIds DEF Chosen, Typed, Small, D!Name, D!Id, D!Free
<1>4. CASE \E m \in Chosen :
             \/ D!cmd_provider_opencode(m) \/ D!cmd_provider_cline(m)
             \/ D!cmd_provider_api(m) \/ D!cmd_model_set(m) \/ D!select_free_model(m)
  <2>1. PICK m \in Chosen :
             \/ D!cmd_provider_opencode(m) \/ D!cmd_provider_cline(m)
             \/ D!cmd_provider_api(m) \/ D!cmd_model_set(m) \/ D!select_free_model(m)
    BY <1>4
  <2>2. m \in D!Name /\ D!Prefixed(m.id) \in D!Name /\ D!Plain("z-ai/glm-5.3-flash") \in D!Name
    BY <1>3, SomeNames, SomeIds
  <2>3. D!Upstream = {"zen", "cline", "other"}
    BY DEF D!Upstream
  <2>4. \E upstream \in D!Upstream, n \in D!Name : D!Save(upstream, n)
    BY <1>2, <2>1, <2>2, <2>3
    DEF D!cmd_provider_opencode, D!cmd_provider_cline, D!cmd_provider_api, D!cmd_model_set,
        D!select_free_model
  <2> QED
    BY <2>4, SaveKeeps
<1>5. CASE \E upstream \in D!Upstream : D!cmd_upstream_set(upstream)
  BY <1>2, <1>5, SaveKeeps DEF D!cmd_upstream_set
<1>6. CASE D!cmd_upstream_reset
  BY <1>2, <1>6, SaveKeeps DEF D!cmd_upstream_reset, D!Upstream
<1>7. CASE D!Restart
  <2>1. D!Quiet /\ server' = config /\ UNCHANGED <<config, told>>
    BY <1>7 DEF D!Restart
  <2>2. ToldInv'
    BY <1>1, <2>1 DEF ToldInv
  <2> QED
    BY <1>1, <1>2, <2>1, <2>2, QuietKeeps
<1>8. CASE D!Launch
  BY <1>8, ChoiceLaunch
<1>9. CASE D!Export(config) \/ D!Export(server)
  <2>1. PICK c \in {config, server} : D!Export(c)
    BY <1>9
  <2>2. c \in D!Config /\ {c} \in SUBSET D!Config
    BY <1>1
  <2> QED
    BY <2>1, <2>2, EffectiveTold, TellKeeps DEF D!Export
<1>10. CASE \E m \in Chosen \cup {D!Unset} : D!ClientConfig(m)
  <2>1. PICK m \in Chosen \cup {D!Unset} : D!ClientConfig(m)
    BY <1>10
  <2>2. CASE D!Given(m)
    <3>1. m \in Chosen
      BY <2>1, <2>2, SomeNames DEF D!Unset, D!Given
    <3>2. m \in D!Name /\ D!Tell(m, {}, "name")
      BY <1>3, <2>1, <2>2, <3>1 DEF D!ClientConfig
    <3> QED
      BY <3>2, TellKeeps
  <2>3. CASE ~D!Given(m)
    <3>1. D!Tell(D!Alias(D!Effective(server)), {server}, "settings")
      BY <2>1, <2>3 DEF D!ClientConfig
    <3>2. D!Alias(D!Effective(server)) \in D!Name
      BY <1>1, EffectiveTold, Aliases
    <3> QED
      BY <1>1, <3>1, <3>2, EffectiveTold, TellKeeps
  <2> QED
    BY <2>2, <2>3
<1>11. CASE \E asked \in Typed \cup {D!Alias(told.model)}, stream \in BOOLEAN :
              \/ D!AskMessages(asked, stream) \/ D!AskChat(asked, stream)
              \/ \E p \in Policies \cup {D!DefaultPolicy} :
                   D!AskManaged(asked, p, stream)
  <2>1. PICK asked \in Typed \cup {D!Alias(told.model)}, stream \in BOOLEAN :
              \/ D!AskMessages(asked, stream) \/ D!AskChat(asked, stream)
              \/ \E p \in Policies \cup {D!DefaultPolicy} :
                   D!AskManaged(asked, p, stream)
    BY <1>11
  <2>2. asked \in D!Name
    BY <1>2, <1>3, Aliases
  <2>3. CASE D!AskMessages(asked, stream)
    <3>1. D!ResolveAnonymous(server, asked) \in D!Name
      BY <1>1, <2>2, Resolved
    <3> QED
      BY <2>2, <2>3, <3>1, ChooseKeeps DEF D!AskMessages
  <2>4. CASE D!AskChat(asked, stream)
    <3> DEFINE first == IF D!Given(server.model) THEN server.model ELSE asked
    <3>1. first \in D!Name /\ D!Choose(asked, "chat", first, stream)
      BY <1>2, <2>2, <2>4 DEF D!AskChat
    <3> QED
      BY <2>2, <3>1, ChooseKeeps
  <2>5. CASE \E p \in Policies \cup {D!DefaultPolicy} : D!AskManaged(asked, p, stream)
    <3>1. PICK p \in Policies \cup {D!DefaultPolicy} : D!AskManaged(asked, p, stream)
      BY <2>5
    <3> DEFINE first == D!Selected(p, server, asked)
               by == IF p.override THEN "key" ELSE "policy"
    <3>2. D!Choose(asked, by, first, stream)
      BY <3>1 DEF D!AskManaged
    <3>3. p.default \in D!Name
      <4>1. Small \in D!Name
        BY DEF Small, D!Name, D!Id, D!Free
      <4>2. Local \in D!Name
        BY <4>1 DEF Local, D!Name, D!Id
      <4>3. D!Unset \in D!Name
        BY SomeNames, SomeIds DEF D!Unset
      <4>4. p.default = Local \/ p.default = D!Unset
        BY DEF Policies, D!DefaultPolicy
      <4> QED
        BY <4>2, <4>3, <4>4
    <3>4. first \in D!Name
      BY <1>2, <2>2, <3>3, SomeNames, SomeIds DEF D!Selected, D!DefaultModel
    <3>5. by = "key" /\ D!Given(asked) => first = asked
      <4>1. CASE p.override
        BY <4>1 DEF D!Selected
      <4>2. CASE ~p.override
        <5>1. by = "policy"
          BY <4>2
        <5> QED
          BY <5>1
      <4> QED
        BY <4>1, <4>2
    <3>6. by # "anonymous"
      OBVIOUS
    <3> HIDE DEF first, by
    <3> QED
      BY <2>2, <3>2, <3>4, <3>5, <3>6, ChooseKeeps
  <2> QED
    BY <2>1, <2>3, <2>4, <2>5
<1>12. CASE D!End
  <2>1. request' = D!NoRequest /\ UNCHANGED <<config, server, retry, told>>
    BY <1>12 DEF D!End
  <2>2. D!NoRequest.asked \in D!Name /\ D!NoRequest.first \in D!Name /\ D!NoRequest.models = {}
    BY SomeNames, SomeIds DEF D!NoRequest, D!Unset
  <2>3. D!TypeOK'
    BY <1>1, <2>1, <2>2 DEF D!TypeOK
  <2>4. ToldInv'
    BY <1>1, <2>1 DEF ToldInv
  <2>5. D!ServedAsTold'
    BY <2>1 DEF D!ServedAsTold, D!AsTold, D!NoRequest
  <2> QED
    BY <2>3, <2>4, <2>5 DEF ChoiceInv
<1> QED
  BY <1>4, <1>5, <1>6, <1>7, <1>8, <1>9, <1>10, <1>11, <1>12 DEF D!Next

(* What a client was told stays what it is judged by, and every request by its
   alias is answered accordingly (app/models.rs, client_config.rs, policy.rs). *)
THEOREM ChoiceInvariant == ServicesSpec => []ChoiceInv
<1>1. ServicesInit => ChoiceInv
  <2> SUFFICES ASSUME ServicesInit PROVE ChoiceInv
    OBVIOUS
  <2>1. D!Init
    BY DEF ServicesInit
  <2>2. D!Unset \in D!Name
    BY SomeNames, SomeIds DEF D!Unset
  <2>3. D!TypeOK
    BY <2>1, <2>2 DEF D!Init, D!TypeOK, D!Config, D!Upstream, D!Nobody, D!NoRequest
  <2>4. ToldInv
    BY <2>1 DEF D!Init, D!Nobody, ToldInv
  <2>5. D!ServedAsTold
    BY <2>1 DEF D!Init, D!ServedAsTold, D!AsTold
  <2> QED
    BY <2>3, <2>4, <2>5 DEF ChoiceInv
<1>2. ChoiceInv /\ [ServicesNext]_allVars => ChoiceInv'
  <2>1. ChoiceInv /\ UNCHANGED modelVars => ChoiceInv'
    BY DEF modelVars, ChoiceInv, D!TypeOK, ToldInv, D!ServedAsTold, D!AsTold, D!Mapped
  <2>2. [ServicesNext]_allVars => D!Next \/ UNCHANGED modelVars
    BY DEF ServicesNext, allVars
  <2> QED
    BY <2>1, <2>2, ModelStepKeeps
<1> QED
  BY <1>1, <1>2, PTL DEF ServicesSpec

(* A client that was told of a large window gets only large models, and one whose
   server runs what it was set up for no smaller model than it was told of. *)
THEOREM ClientsAreServedAsTold == ServicesSpec => []ServedAsTold
<1>1. ChoiceInv => ServedAsTold
  BY DEF ChoiceInv, ServedAsTold
<1> QED
  BY <1>1, ChoiceInvariant, PTL

-----------------------------------------------------------------------------
(***************************************************************************)
(* The search.  Providers are asked in their order, and each is counted    *)
(* when it is done: those before the one that is asked were asked in vain, *)
(* those after it were not asked.  So the last problem is that of the last *)
(* provider, and the walk ends only with nobody left to ask or out of time. *)
(***************************************************************************)

Problems ==
  {"none", "NoResults", "Transport", "ResponseTooLarge", "HttpStatus",
   "MalformedResponse", "Timeout", "BudgetExhausted"}

SearchTyped ==
  /\ left \subseteq W!Provider
  /\ asking \in 0..6
  /\ spent \in Nat
  /\ counted \in [W!Provider -> {"none", "empty", "failure", "success"}]
  /\ problem \in [provider : 0..6, kind : Problems]
  /\ answer \in [state : {"none", "walk", "failed", "results", "cancelled"},
                 of : SUBSET W!Provider, by : 0..6, results : Nat]

Unasked ==
  answer.state = "none" =>
    asking = W!NoOne /\ \A p \in W!Provider : counted[p] = "none"

\* The providers are asked in their order.
InOrder ==
  answer.state # "none" =>
    /\ left \subseteq answer.of
    /\ \A p \in answer.of \ left, q \in left : p < q

OnlyAsked == \A p \in W!Provider : counted[p] # "none" => p \in answer.of \ left

\* The one that is asked is the last so far.
LastAsked ==
  asking # W!NoOne =>
    /\ answer.state = "walk" /\ asking \in answer.of \ left
    /\ \A p \in answer.of \ left : p <= asking

InVain ==
  answer.state \in {"walk", "failed"} =>
    \A p \in answer.of :
      /\ counted[p] # "success"
      /\ (counted[p] = "none" <=> p \in left \cup {asking})

\* The problem is that of the last provider that is done.
ItsProblem ==
  answer.state \in {"walk", "failed"} =>
    \A p \in W!Provider :
      counted[p] # "none" =>
        /\ problem.provider \in W!Provider /\ counted[problem.provider] # "none"
        /\ p <= problem.provider
        /\ (problem.kind = "NoResults" <=> counted[problem.provider] = "empty")

Ended ==
  answer.state = "failed" => asking = W!NoOne /\ (left = {} \/ spent > ChainBudget)

Answered ==
  answer.state = "results" =>
    /\ answer.by \in answer.of /\ answer.results \in 1..MaxResults
    /\ counted[answer.by] = "success"
    /\ \A p \in answer.of :
         /\ p < answer.by => counted[p] \in {"empty", "failure"}
         /\ p > answer.by => counted[p] = "none"

SearchInv ==
  /\ SearchTyped /\ Unasked /\ InOrder /\ OnlyAsked /\ LastAsked
  /\ InVain /\ ItsProblem /\ Ended /\ Answered

\* A query is between one and 512 characters whatever a model asks for.
LEMMA QueriesValid ==
  ASSUME NEW call \in Lengths, NEW said \in Lengths
  PROVE  W!Valid(W!Resolve(call, said))
<1>1. call \in Nat /\ said \in Nat
  BY SearchAssumption
<1> QED
  BY <1>1 DEF W!Valid, W!Resolve, W!Bounded, W!DefaultQuery

\* Some provider is the first of those left.
LEMMA FirstIsLeast ==
  ASSUME NEW A, A \subseteq W!Provider, A # {}
  PROVE  W!FirstOf(A) \in A /\ \A q \in A : W!FirstOf(A) <= q
<1>1. \E p \in A : \A q \in A : p <= q
  <2>1. A \subseteq 1..6
    BY DEF W!Provider
  <2>2. CASE 1 \in A
    BY <2>1, <2>2
  <2>3. CASE 1 \notin A /\ 2 \in A
    BY <2>1, <2>3
  <2>4. CASE 1 \notin A /\ 2 \notin A /\ 3 \in A
    BY <2>1, <2>4
  <2>5. CASE 1 \notin A /\ 2 \notin A /\ 3 \notin A /\ 4 \in A
    BY <2>1, <2>5
  <2>6. CASE A \subseteq {5, 6} /\ 5 \in A
    BY <2>6
  <2>7. CASE A = {6}
    BY <2>7
  <2>8. \A p \in A : p = 1 \/ p = 2 \/ p = 3 \/ p = 4 \/ p = 5 \/ p = 6
    BY <2>1
  <2>9. CASE 1 \notin A /\ 2 \notin A /\ 3 \notin A /\ 4 \notin A
    BY <2>6, <2>7, <2>8, <2>9
  <2> QED
    BY <2>2, <2>3, <2>4, <2>5, <2>9
<1> QED
  BY <1>1 DEF W!FirstOf

\* No provider shows more results than are configured.
LEMMA ResultsLimited ==
  ASSUME NEW p \in W!Provider, NEW page \in W!Pages
  PROVE  W!Results(p, page) \in 0..MaxResults
<1>1. \A n \in Nat : W!Limit(n) \in 0..MaxResults
  BY SearchAssumption DEF W!Limit
<1>2. W!Web(page.links) \in Nat
  <2>1. page.links \in W!BoundedSeq(W!Link, MaxLinks)
    BY DEF W!Pages
  <2>2. PICK m \in 0..MaxLinks : page.links \in [1..m -> W!Link]
    BY <2>1 DEF W!BoundedSeq, W!SeqOf
  <2>3. m \in Nat
    BY SearchAssumption
  <2>4. IsFiniteSet(1..m)
    BY <2>3, FS_Interval
  <2> DEFINE webs == {i \in DOMAIN page.links : page.links[i] = "web"}
  <2>5. webs \subseteq 1..m
    BY <2>2
  <2>6. W!Web(page.links) = Cardinality(webs)
    BY DEF W!Web, W!Cardinality, Cardinality
  <2> HIDE DEF webs
  <2>7. IsFiniteSet(webs)
    BY <2>4, <2>5, FS_Subset
  <2> QED
    BY <2>6, <2>7, FS_CardinalityType
<1>3. page.texts \in Nat
  BY SearchAssumption DEF W!Pages
<1>4. (IF page.box THEN 1 ELSE 0) + W!Web(page.links) \in Nat
  BY <1>2
<1>5. 0 \in 0..MaxResults /\ 1 \in 0..MaxResults
  BY SearchAssumption
<1>6. W!tavily(page) \in 0..MaxResults
  BY <1>1, <1>2 DEF W!tavily
<1>7. W!exa(page) \in 0..MaxResults
  BY <1>1, <1>2 DEF W!exa
<1>8. W!serper(page) \in 0..MaxResults
  BY <1>1, <1>4 DEF W!serper
<1>9. W!searxng(page) \in 0..MaxResults
  BY <1>1, <1>2 DEF W!searxng
<1>10. W!duckduckgo(page) \in 0..MaxResults
  <2> DEFINE first == page.links # <<>> /\ Head(page.links) = "web"
  <2>1. W!duckduckgo(page) = IF first THEN 1 ELSE W!Limit(page.texts)
    BY DEF W!duckduckgo
  <2> HIDE DEF first
  <2> QED
    BY <1>1, <1>3, <1>5, <2>1
<1>11. W!yahoo(page) \in 0..MaxResults
  BY <1>1, <1>2, <1>5 DEF W!yahoo
<1> QED
  BY <1>6, <1>7, <1>8, <1>9, <1>10, <1>11
  DEF W!Results, W!Provider, W!Tavily, W!Exa, W!Serper, W!SearXng, W!DuckDuckGo, W!Yahoo

LEMMA SearchBegins ==
  ASSUME SearchInv, NEW call \in Lengths, NEW said \in Lengths, W!search(call, said)
  PROVE  SearchInv'
<1>1. /\ answer' = [answer EXCEPT !.state = "walk", !.of = left]
      /\ UNCHANGED <<left, asking, spent, since, timeout, problem, counted>>
      /\ answer.state = "none"
  BY QueriesValid DEF W!search
<1>2. answer'.state = "walk" /\ answer'.of = left
  BY <1>1 DEF SearchInv, SearchTyped
<1>3. SearchTyped'
  BY <1>1 DEF SearchInv, SearchTyped
<1>4. asking = W!NoOne /\ \A p \in W!Provider : counted[p] = "none"
  BY <1>1 DEF SearchInv, Unasked
<1> QED
  BY <1>1, <1>2, <1>3, <1>4
  DEF SearchInv, SearchTyped, Unasked, InOrder, OnlyAsked, LastAsked, InVain, ItsProblem,
      Ended, Answered, W!NoOne, W!Provider

LEMMA AskKeeps == SearchInv /\ W!Ask => SearchInv'
<1> SUFFICES ASSUME SearchInv, W!Ask PROVE SearchInv'
  OBVIOUS
<1> DEFINE p == W!FirstOf(left)
<1>1. /\ answer.state = "walk" /\ asking = 0 /\ asking' = p /\ left' = left \ {p}
      /\ UNCHANGED <<spent, problem, counted, answer>>
  BY DEF W!Ask, W!Walking, W!NoOne
<1>2. p \in left /\ p \in W!Provider /\ \A q \in left : p <= q
  BY FirstIsLeast DEF W!Ask, SearchInv, SearchTyped
<1> HIDE DEF p
<1>3. left \subseteq answer.of /\ \A x \in answer.of \ left, q \in left : x < q
  BY <1>1 DEF SearchInv, InOrder
<1>4. SearchTyped /\ left \subseteq 1..6 /\ p \in 1..6 /\ answer.of \subseteq 1..6
  BY <1>2 DEF SearchInv, SearchTyped, W!Provider
<1>5. SearchTyped'
  BY <1>1, <1>4 DEF SearchTyped, W!Provider
<1>6. InOrder' /\ LastAsked'
  BY <1>1, <1>2, <1>3, <1>4 DEF InOrder, LastAsked
<1>7. OnlyAsked' /\ InVain'
  BY <1>1, <1>2, <1>3, <1>4 DEF SearchInv, OnlyAsked, InVain, W!Provider
<1>8. ItsProblem' /\ Unasked' /\ Ended' /\ Answered'
  BY <1>1 DEF SearchInv, ItsProblem, Unasked, Ended, Answered
<1> QED
  BY <1>5, <1>6, <1>7, <1>8 DEF SearchInv

LEMMA TickKeeps == SearchInv /\ W!Tick => SearchInv'
<1> SUFFICES ASSUME SearchInv, W!Tick PROVE SearchInv'
  OBVIOUS
<1>1. /\ answer.state = "walk" /\ spent' = spent + 1
      /\ UNCHANGED <<left, asking, problem, counted, answer>>
  BY DEF W!Tick, W!Walking
<1>2. SearchTyped'
  BY <1>1 DEF SearchInv, SearchTyped
<1> QED
  BY <1>1, <1>2
  DEF SearchInv, Unasked, InOrder, OnlyAsked, LastAsked, InVain, ItsProblem, Ended, Answered

\* What holds when the provider that is asked is done.
LEMMA WhoIsAsked ==
  ASSUME SearchInv, asking # W!NoOne
  PROVE  /\ answer.state = "walk" /\ asking \in W!Provider /\ asking \in answer.of
         /\ asking \notin left /\ counted[asking] = "none"
         /\ \A p \in answer.of \ {asking} :
              IF p \in left THEN p > asking /\ counted[p] = "none"
                            ELSE p < asking /\ counted[p] \in {"empty", "failure"}
<1>1. /\ answer.state = "walk" /\ asking \in answer.of \ left
      /\ \A p \in answer.of \ left : p <= asking
  BY DEF SearchInv, LastAsked
<1>2. answer.of \subseteq 1..6
  BY DEF SearchInv, SearchTyped, W!Provider
<1>3. /\ \A p \in left : asking < p
      /\ \A p \in answer.of : /\ counted[p] # "success"
                              /\ (counted[p] = "none" <=> p \in left \cup {asking})
  BY <1>1 DEF SearchInv, InOrder, InVain
<1>4. \A p \in answer.of : counted[p] \in {"none", "empty", "failure", "success"}
  BY <1>2 DEF SearchInv, SearchTyped, W!Provider
<1> QED
  BY <1>1, <1>2, <1>3, <1>4 DEF W!Provider

LEMMA FailsKeeps ==
  ASSUME SearchInv, NEW kind \in Problems, W!Fails(kind)
  PROVE  SearchInv'
<1> DEFINE c == IF kind = "NoResults" THEN "empty" ELSE "failure"
<1>1. /\ answer.state = "walk" /\ asking # W!NoOne /\ asking' = W!NoOne
      /\ counted' = [counted EXCEPT ![asking] = c]
      /\ problem' = [provider |-> asking, kind |-> kind]
      /\ UNCHANGED <<left, spent, answer>>
  BY DEF W!Fails, W!Walking
<1>2. c \in {"empty", "failure"} /\ (kind = "NoResults" <=> c = "empty")
  OBVIOUS
<1> HIDE DEF c
<1>3. SearchTyped /\ InOrder /\ OnlyAsked
  BY DEF SearchInv
<1>4. SearchTyped'
  <2>1. counted' \in [W!Provider -> {"none", "empty", "failure", "success"}]
    BY <1>1, <1>2, <1>3 DEF SearchTyped
  <2>2. problem' \in [provider : 0..6, kind : Problems]
    BY <1>1, <1>3 DEF SearchTyped
  <2> QED
    BY <2>1, <2>2, <1>1, <1>3 DEF SearchTyped, W!NoOne
<1>5. /\ asking \in W!Provider /\ asking \in answer.of /\ asking \notin left
      /\ \A p \in answer.of \ {asking} :
           IF p \in left THEN p > asking /\ counted[p] = "none"
                         ELSE p < asking /\ counted[p] \in {"empty", "failure"}
  BY <1>1, WhoIsAsked
<1>6. /\ counted'[asking] = c
      /\ \A p \in W!Provider \ {asking} : counted'[p] = counted[p]
  BY <1>1, <1>3, <1>5 DEF SearchTyped
<1>7. answer.of \subseteq W!Provider /\ W!Provider \subseteq Nat /\ W!NoOne \notin W!Provider
  BY <1>3 DEF SearchTyped, W!Provider, W!NoOne
<1>8. OnlyAsked' /\ InOrder'
  BY <1>1, <1>3, <1>5, <1>6 DEF OnlyAsked, InOrder
<1>9. InVain'
  BY <1>1, <1>2, <1>5, <1>6, <1>7 DEF InVain
<1>10. ItsProblem'
  <2>1. \A p \in W!Provider : counted'[p] # "none" => p <= asking
    <3> SUFFICES ASSUME NEW p \in W!Provider, counted'[p] # "none", p # asking
                 PROVE  p <= asking
      BY <1>7
    <3>1. p \in answer.of \ left
      BY <1>3, <1>6 DEF OnlyAsked
    <3>2. p \in answer.of \ {asking} /\ p \notin left
      BY <3>1
    <3>3. p < asking
      BY <3>2, <1>5
    <3>4. p \in Nat /\ asking \in Nat
      BY <1>5, <1>7
    <3> QED
      BY <3>3, <3>4
  <2>2. problem'.provider = asking /\ problem'.kind = kind
    BY <1>1
  <2> QED
    BY <2>1, <2>2, <1>2, <1>5, <1>6 DEF ItsProblem
<1>11. Unasked' /\ LastAsked' /\ Ended' /\ Answered'
  BY <1>1 DEF Unasked, LastAsked, Ended, Answered
<1> QED
  BY <1>4, <1>8, <1>9, <1>10, <1>11 DEF SearchInv

LEMMA SucceedsKeeps ==
  ASSUME SearchInv, NEW results \in 1..MaxResults, W!Succeeds(results)
  PROVE  SearchInv'
<1>1. /\ answer.state = "walk" /\ asking # W!NoOne /\ asking' = W!NoOne
      /\ counted' = [counted EXCEPT ![asking] = "success"]
      /\ answer' = [answer EXCEPT !.state = "results", !.by = asking, !.results = results]
      /\ UNCHANGED <<left, spent, problem>>
  BY DEF W!Succeeds, W!Walking
<1>2. SearchTyped /\ InOrder /\ OnlyAsked
  BY DEF SearchInv
<1>3. /\ asking \in W!Provider /\ asking \in answer.of /\ asking \notin left
      /\ \A p \in answer.of \ {asking} :
           IF p \in left THEN p > asking /\ counted[p] = "none"
                         ELSE p < asking /\ counted[p] \in {"empty", "failure"}
  BY <1>1, WhoIsAsked
<1>4. /\ counted'[asking] = "success"
      /\ \A p \in W!Provider \ {asking} : counted'[p] = counted[p]
  BY <1>1, <1>2, <1>3 DEF SearchTyped
<1>5. /\ answer'.state = "results" /\ answer'.by = asking /\ answer'.results = results
      /\ answer'.of = answer.of
  BY <1>1, <1>2 DEF SearchTyped
<1>6. answer.of \subseteq W!Provider /\ W!Provider \subseteq Nat
  BY <1>2 DEF SearchTyped, W!Provider
<1>7. results \in Nat /\ asking \in 0..6
  BY <1>2, SearchAssumption DEF SearchTyped
<1>8. SearchTyped'
  <2>1. answer' \in [state : {"none", "walk", "failed", "results", "cancelled"},
                     of : SUBSET W!Provider, by : 0..6, results : Nat]
    BY <1>1, <1>2, <1>7 DEF SearchTyped
  <2>2. counted' \in [W!Provider -> {"none", "empty", "failure", "success"}]
    BY <1>1, <1>2 DEF SearchTyped
  <2> QED
    BY <2>1, <2>2, <1>1, <1>2 DEF SearchTyped, W!NoOne
<1>9. OnlyAsked' /\ InOrder'
  BY <1>1, <1>2, <1>3, <1>4, <1>5 DEF OnlyAsked, InOrder
<1>10. Answered'
  <2> SUFFICES ASSUME NEW p \in answer.of
               PROVE  /\ p < asking => counted'[p] \in {"empty", "failure"}
                      /\ p > asking => counted'[p] = "none"
    BY <1>3, <1>4, <1>5 DEF Answered
  <2>1. p \in Nat /\ asking \in Nat /\ p \in W!Provider
    BY <1>3, <1>6
  <2>2. CASE p = asking
    BY <2>1, <2>2
  <2>3. CASE p \in left /\ p # asking
    <3>1. p > asking /\ counted'[p] = "none"
      BY <1>3, <1>4, <2>1, <2>3
    <3> QED
      BY <3>1, <2>1
  <2>4. CASE p \notin left /\ p # asking
    <3>1. p < asking /\ counted'[p] \in {"empty", "failure"}
      BY <1>3, <1>4, <2>1, <2>4
    <3> QED
      BY <3>1, <2>1
  <2> QED
    BY <2>2, <2>3, <2>4
<1>11. Unasked' /\ LastAsked' /\ Ended' /\ InVain' /\ ItsProblem'
  BY <1>1, <1>5 DEF Unasked, LastAsked, Ended, InVain, ItsProblem
<1> QED
  BY <1>8, <1>9, <1>10, <1>11 DEF SearchInv

LEMMA GiveUpKeeps == SearchInv /\ W!GiveUp => SearchInv'
<1> SUFFICES ASSUME SearchInv, W!GiveUp PROVE SearchInv'
  OBVIOUS
<1>1. /\ answer' = [answer EXCEPT !.state = "failed"]
      /\ UNCHANGED <<left, asking, spent, counted>>
      /\ problem' = IF problem = W!NoProblem
                    THEN [provider |-> W!DuckDuckGo, kind |-> "BudgetExhausted"] ELSE problem
  BY DEF W!GiveUp, W!Walking, W!NoOne
<1>2. asking = 0 /\ answer.state = "walk" /\ (left = {} \/ spent > ChainBudget)
  BY DEF W!GiveUp, W!Walking, W!NoOne
<1>3. answer'.state = "failed" /\ answer'.of = answer.of
  BY <1>1 DEF SearchInv, SearchTyped
<1>4. SearchTyped'
  BY <1>1 DEF SearchInv, SearchTyped, W!DuckDuckGo, Problems
<1>5. ItsProblem'
  <2>1. SUFFICES ASSUME NEW p \in W!Provider, counted[p] # "none"
        PROVE  /\ problem' = problem /\ problem.provider \in W!Provider
               /\ counted[problem.provider] # "none" /\ p <= problem.provider
               /\ (problem.kind = "NoResults" <=> counted[problem.provider] = "empty")
    BY <1>1, <1>3 DEF ItsProblem
  <2>2. /\ problem.provider \in W!Provider
        /\ counted[problem.provider] # "none" /\ p <= problem.provider
        /\ (problem.kind = "NoResults" <=> counted[problem.provider] = "empty")
    BY <1>2, <2>1 DEF SearchInv, ItsProblem
  <2>3. problem # W!NoProblem
    BY <2>2 DEF W!NoProblem, W!NoOne, W!Provider
  <2> QED
    BY <1>1, <2>2, <2>3
<1>6. Unasked' /\ InOrder' /\ OnlyAsked' /\ LastAsked' /\ InVain' /\ Ended' /\ Answered'
  BY <1>1, <1>2, <1>3
  DEF SearchInv, Unasked, InOrder, OnlyAsked, LastAsked, InVain, Ended, Answered, W!NoOne
<1> QED
  BY <1>4, <1>5, <1>6 DEF SearchInv

LEMMA CancelKeeps == SearchInv /\ W!Cancel => SearchInv'
<1> SUFFICES ASSUME SearchInv, W!Cancel PROVE SearchInv'
  OBVIOUS
<1>1. /\ answer.state = "walk" /\ asking' = W!NoOne
      /\ answer' = [answer EXCEPT !.state = "cancelled"]
      /\ UNCHANGED <<left, spent, problem, counted>>
  BY DEF W!Cancel, W!Walking
<1>2. answer'.state = "cancelled" /\ answer'.of = answer.of
  BY <1>1 DEF SearchInv, SearchTyped
<1>3. SearchTyped'
  BY <1>1 DEF SearchInv, SearchTyped, W!NoOne
<1> QED
  BY <1>1, <1>2, <1>3
  DEF SearchInv, Unasked, InOrder, OnlyAsked, LastAsked, InVain, ItsProblem, Ended, Answered

LEMMA SearchStepKeeps == SearchInv /\ W!Next => SearchInv'
<1> SUFFICES ASSUME SearchInv, W!Next PROVE SearchInv'
  OBVIOUS
<1>1. CASE \E call, said \in Lengths : W!search(call, said)
  BY <1>1, SearchBegins
<1>2. CASE \E page \in W!Pages : W!Reply(page)
  <2>1. PICK page \in W!Pages : W!Reply(page)
    BY <1>2
  <2>2. asking \in W!Provider
    BY <2>1, WhoIsAsked DEF W!Reply
  <2>3. W!Results(asking, page) \in 0..MaxResults
    BY <2>2, ResultsLimited
  <2>4. CASE W!Results(asking, page) = 0
    BY <2>1, <2>4, FailsKeeps DEF W!Reply, Problems
  <2>5. CASE W!Results(asking, page) # 0
    <3>1. W!Succeeds(W!Results(asking, page))
      BY <2>1, <2>5 DEF W!Reply
    <3>2. W!Results(asking, page) \in 1..MaxResults
      BY <2>3, <2>5, SearchAssumption
    <3> QED
      BY <3>1, <3>2, SucceedsKeeps
  <2> QED
    BY <2>4, <2>5
<1>3. CASE W!Breaks \/ W!TimesOut \/ W!CutOff
  BY <1>3, FailsKeeps DEF W!Breaks, W!TimesOut, W!CutOff, Problems
<1> QED
  BY <1>1, <1>2, <1>3, AskKeeps, TickKeeps, GiveUpKeeps, CancelKeeps DEF W!Next

(* A search is in order at every moment: the providers are asked in their
   order, each counted when it is done, and the problem is that of the last one
   (chain.rs, search). *)
THEOREM SearchInvariant == ServicesSpec => []SearchInv
<1>1. ServicesInit => SearchInv
  <2> SUFFICES ASSUME ServicesInit PROVE SearchInv
    OBVIOUS
  <2>1. W!Init
    BY DEF ServicesInit
  <2>2. left \subseteq W!Provider
    BY <2>1 DEF W!Init, W!Provider, W!Tavily, W!Exa, W!Serper, W!SearXng, W!DuckDuckGo, W!Yahoo
  <2> QED
    BY <2>1, <2>2
    DEF W!Init, W!NoProblem, W!NoAnswer, W!NoOne, SearchInv, SearchTyped, Problems, Unasked,
        InOrder, OnlyAsked, LastAsked, InVain, ItsProblem, Ended, Answered
<1>2. SearchInv /\ [ServicesNext]_allVars => SearchInv'
  <2>1. CASE UNCHANGED searchVars
    BY <2>1
    DEF searchVars, SearchInv, SearchTyped, Unasked, InOrder, OnlyAsked, LastAsked, InVain,
        ItsProblem, Ended, Answered
  <2>2. [ServicesNext]_allVars => W!Next \/ UNCHANGED searchVars
    BY DEF ServicesNext, allVars
  <2> QED
    BY <2>1, <2>2, SearchStepKeeps
<1> QED
  BY <1>1, <1>2, PTL DEF ServicesSpec

(* A search ends with results of a provider it was entitled to ask, or with the
   truth about who was asked in vain (chain.rs, search; metrics.rs). *)
THEOREM SearchesAreAccounted == ServicesSpec => []SearchAccounted
<1>1. SearchInv => SearchAccounted
  <2> SUFFICES ASSUME SearchInv PROVE W!SearchAccounted
    BY DEF SearchAccounted
  <2> DEFINE before(p) == {q \in answer.of : q < p}
             inVain == {p \in answer.of : counted[p] \in {"empty", "failure"}}
             asked == {p \in answer.of : counted[p] # "none"}
  <2>1. answer.of \subseteq W!Provider /\ W!Provider \subseteq Nat
    BY DEF SearchInv, SearchTyped, W!Provider
  <2>2. answer.state # "invalid"
    BY DEF SearchInv, SearchTyped
  <2>3. asked \cap left = {}
    BY <2>1 DEF SearchInv, OnlyAsked
  <2>4. \A p \in answer.of : counted[p] \in {"none", "empty", "failure", "success"}
    BY <2>1 DEF SearchInv, SearchTyped
  <2>5. ASSUME answer.state = "results"
        PROVE  /\ answer.by \in answer.of /\ answer.results \in 1..MaxResults
               /\ inVain = before(answer.by) /\ asked = inVain \cup {answer.by}
    <3>1. /\ answer.by \in answer.of /\ answer.results \in 1..MaxResults
          /\ counted[answer.by] = "success"
          /\ \A p \in answer.of :
               /\ p < answer.by => counted[p] \in {"empty", "failure"}
               /\ p > answer.by => counted[p] = "none"
      BY <2>5 DEF SearchInv, Answered
    <3>2. \A p \in answer.of : p < answer.by \/ p = answer.by \/ p > answer.by
      <4>1. answer.of \subseteq Nat
        BY <2>1
      <4> QED
        BY <3>1, <4>1
    <3>3. inVain = before(answer.by)
      BY <2>1, <3>1, <3>2
    <3>4. asked = inVain \cup {answer.by}
      BY <2>4, <3>1, <3>2
    <3> QED
      BY <3>1, <3>3, <3>4
  <2>6. ASSUME answer.state = "failed"
        PROVE  /\ asked = inVain
               /\ inVain = answer.of \/ spent > ChainBudget
               /\ asked # {} =>
                    /\ problem.provider \in asked
                    /\ asked = before(problem.provider) \cup {problem.provider}
                    /\ (problem.kind = "NoResults" <=> counted[problem.provider] = "empty")
    <3>1. asking = W!NoOne /\ (left = {} \/ spent > ChainBudget)
      BY <2>6 DEF SearchInv, Ended
    <3>2. \A p \in answer.of : /\ counted[p] # "success"
                               /\ (counted[p] = "none" <=> p \in left)
      BY <2>1, <2>6, <3>1 DEF SearchInv, InVain, W!NoOne, W!Provider
    <3>3. asked = inVain
      BY <2>4, <3>2
    <3>4. inVain = answer.of \/ spent > ChainBudget
      BY <2>4, <3>1, <3>2
    <3>5. ASSUME asked # {}
          PROVE  /\ problem.provider \in asked
                 /\ asked = before(problem.provider) \cup {problem.provider}
                 /\ (problem.kind = "NoResults" <=> counted[problem.provider] = "empty")
      <4>1. /\ problem.provider \in W!Provider /\ counted[problem.provider] # "none"
            /\ (problem.kind = "NoResults" <=> counted[problem.provider] = "empty")
            /\ \A p \in asked : p <= problem.provider
        BY <2>1, <2>6, <3>5 DEF SearchInv, ItsProblem
      <4>2. problem.provider \in answer.of \ left
        BY <4>1 DEF SearchInv, OnlyAsked
      <4>3. answer.of \subseteq Nat /\ problem.provider \in Nat
        BY <2>1, <4>1
      <4>4. \A q \in answer.of : q <= problem.provider => q \in asked
        <5> SUFFICES ASSUME NEW q \in answer.of, q <= problem.provider PROVE q \notin left
          BY <3>2
        <5>1. q \in left => problem.provider < q
          BY <2>6, <4>2 DEF SearchInv, InOrder
        <5>2. q \in Nat
          BY <4>3
        <5> QED
          BY <4>3, <5>1, <5>2
      <4>5. \A q \in answer.of :
              q <= problem.provider <=> q < problem.provider \/ q = problem.provider
        BY <4>3
      <4>6. asked \subseteq answer.of /\ before(problem.provider) \subseteq answer.of
        OBVIOUS
      <4>7. asked = before(problem.provider) \cup {problem.provider}
        BY <4>1, <4>2, <4>4, <4>5, <4>6
      <4> QED
        BY <4>1, <4>7
    <3> QED
      BY <3>3, <3>4, <3>5
  <2> HIDE DEF before, inVain, asked
  <2> QED
    BY <2>2, <2>3, <2>5, <2>6 DEF W!SearchAccounted, before, inVain, asked
<1> QED
  BY <1>1, SearchInvariant, PTL

-----------------------------------------------------------------------------
(***************************************************************************)
(* The settings.  A change goes into the document that the program reads,  *)
(* and what is written is sound, of the newest version and typed, so the   *)
(* program heeds it whole.  What the configuration makes of a setting      *)
(* depends on that setting and on those it is resolved together with.      *)
(***************************************************************************)

\* The environment says something of one setting, and the places stay.
SettingsInv ==
  /\ env \in {S!Silence} \cup S!Entries(S!EnvValues)
  /\ files = [p \in {"local", "home"} |-> files[p]]

\* Only lists are said to be empty, and no list or secret fails to parse.
Clear ==
  /\ \A k \in S!Settings \ {"tokens", "primary", "proxies"} : S!Said(env, k) # "empty"
  /\ \A k \in {"tokens", "admin", "key"} : S!Said(env, k) # "bad"

LEMMA EnvironmentClear == SettingsInv => Clear
<1> SUFFICES ASSUME SettingsInv PROVE Clear
  OBVIOUS
<1>1. CASE env = S!Silence
  BY <1>1 DEF Clear, S!Said, S!Silence
<1>2. CASE env \in S!Entries(S!EnvValues)
  <2>0. PICK k \in DOMAIN S!EnvValues :
          env \in {[x \in {k} |-> v] : v \in S!EnvValues[k]}
    BY <1>2 DEF S!Entries
  <2>1. PICK v \in S!EnvValues[k] : env = [x \in {k} |-> v]
    BY <2>0
  <2>2. \A j : S!Said(env, j) # "unset" => j = k /\ S!Said(env, j) = v
    BY <2>1 DEF S!Said
  <2>3. v = "empty" => k \in {"tokens", "primary", "proxies"}
    BY <2>1 DEF S!EnvValues
  <2>4. v = "bad" => k \notin {"tokens", "admin", "key"}
    BY <2>1 DEF S!EnvValues
  <2> QED
    BY <2>2, <2>3, <2>4 DEF Clear
<1> QED
  BY <1>1, <1>2 DEF SettingsInv

\* Documents that agree on a setting and on what it is resolved with show alike.
LEMMA ShownAlike ==
  ASSUME NEW before, NEW after, NEW k,
         \A j : j # k => S!Said(after, j) = S!Said(before, j)
  PROVE  \A j \in DOMAIN S!Load(before) \ S!Related(k) :
           S!Load(after)[j] = S!Load(before)[j]
<1>1. "host" # k => S!Host(after) = S!Host(before)
  BY DEF S!Host, S!First
<1>2. "port" # k => S!Port(after) = S!Port(before)
  BY DEF S!Port
<1>3. "policy" # k => S!Policy(after) = S!Policy(before)
  BY DEF S!Policy, S!First
<1>4. "tokens" # k => S!Tokens(after) = S!Tokens(before)
  BY DEF S!Tokens
<1>5. "admin" # k => S!Admin(after) = S!Admin(before)
  BY DEF S!Admin
<1>6. "limit" # k => S!Limit(after) = S!Limit(before)
  BY DEF S!Limit
<1>7. "history" # k => S!History(after) = S!History(before)
  BY DEF S!History
<1>8. "budget" # k => S!Budget(after) = S!Budget(before)
  BY DEF S!Budget
<1>9. "mode" # k => S!Mode(after) = S!Mode(before)
  BY DEF S!Mode, S!First
<1>10. "primary" # k /\ "proxies" # k =>
         /\ S!FileProxies(after) = S!FileProxies(before)
         /\ S!NamedPool(after) = S!NamedPool(before)
  BY DEF S!FileProxies, S!NamedPool
<1>11. "exits" # k => S!Exits(after) = S!Exits(before)
  BY DEF S!Exits
<1>12. "fallback" # k => S!Fallback(after) = S!Fallback(before)
  BY DEF S!Fallback
<1>13. "base" # k => S!Base(after) = S!Base(before)
  BY DEF S!Base
<1>14. "max" # k => S!Max(after) = S!Max(before)
  BY DEF S!Max
<1>15. "url" # k => S!Url(after) = S!Url(before)
  BY DEF S!Url, S!First
<1>16. "key" # k /\ "keys" # k =>
         S!Key(after) = S!Key(before) /\ S!Keys(after) = S!Keys(before)
  BY DEF S!Key, S!Keys, S!First
<1>24. "search" # k => S!Search(after) = S!Search(before)
  BY DEF S!Search
<1>25. "searxng" # k => S!SearxNG(after) = S!SearxNG(before)
  BY DEF S!SearxNG, S!First
<1>26. "private" # k => S!Private(after) = S!Private(before)
  BY DEF S!Private
<1>27. "reasoning" # k => S!Reasoning(after) = S!Reasoning(before)
  BY DEF S!Reasoning
<1> DEFINE Alone == {"host", "port", "policy", "tokens", "admin", "limit", "history",
                     "budget", "mode", "exits", "fallback", "base", "max", "url",
                     "search", "searxng", "private", "reasoning"}
<1>17. \A j \in Alone : j \notin S!Related(k) => j # k
  BY DEF S!Related
<1>18. \A j \in {"primary", "proxies", "explicit"} :
         j \notin S!Related(k) => "primary" # k /\ "proxies" # k
  BY DEF S!Related
<1>19. \A j \in {"key", "keys"} : j \notin S!Related(k) => "key" # k /\ "keys" # k
  BY DEF S!Related
<1>20. DOMAIN S!Load(before) = Alone \cup {"primary", "proxies", "explicit", "key", "keys"}
  BY DEF S!Load
<1>21. \A j \in Alone : j # k => S!Load(after)[j] = S!Load(before)[j]
  BY <1>1, <1>2, <1>3, <1>4, <1>5, <1>6, <1>7, <1>8, <1>9, <1>11, <1>12, <1>13, <1>14,
     <1>15, <1>24, <1>25, <1>26, <1>27 DEF S!Load
<1>22. "primary" # k /\ "proxies" # k =>
         \A j \in {"primary", "proxies", "explicit"} :
           S!Load(after)[j] = S!Load(before)[j]
  BY <1>10 DEF S!Load
<1>23. "key" # k /\ "keys" # k =>
         \A j \in {"key", "keys"} : S!Load(after)[j] = S!Load(before)[j]
  BY <1>16 DEF S!Load
<1> HIDE DEF Alone
<1> QED
  BY <1>17, <1>18, <1>19, <1>20, <1>21, <1>22, <1>23

\* What an acceptable document says of a setting is in effect.
LEMMA InEffect ==
  ASSUME Clear, NEW d, NEW k \in S!Known, NEW v, S!Acceptable(d),
         S!Said(d, k) = v, v # "unset", ~S!Shadowed(k), ~S!Idle(k, v, d)
  PROVE  S!Shows(S!Load(d), k) = v
<1>1. k \in DOMAIN d /\ d[k] = v
  BY DEF S!Said
<1>2. S!Said(flag, k) = "unset" /\ S!Full(S!Parsed(k)) = "unset"
  BY DEF S!Shadowed
<1>3. k \notin {"tokens", "primary", "proxies"} => S!Parsed(k) = "unset"
  BY <1>2 DEF Clear, S!Full, S!Parsed, S!Known
<1>4. v # "empty" /\ S!Full(v) = v
  BY DEF S!Idle, S!Full
<1>5. CASE k = "host"
  <2>1. S!Said(env, "host") = "unset" /\ v # "bad"
    BY <1>5 DEF S!Shadowed, S!Acceptable
  <2>2. S!Host(d) = v
    BY <1>2, <1>5, <2>1 DEF S!Host, S!First, S!Else
  <2> QED
    BY <1>5, <2>2 DEF S!Shows, S!Load
<1>6. CASE k = "port"
  <2>1. S!Port(d) = v
    BY <1>2, <1>3, <1>6 DEF S!Port, S!Else
  <2> QED
    BY <1>6, <2>1 DEF S!Shows, S!Load
<1>7. CASE k = "policy"
  <2>1. S!Said(env, "policy") = "unset" /\ v # "bad"
    BY <1>7 DEF S!Shadowed, S!Acceptable
  <2>2. S!Policy(d) = v
    BY <1>2, <1>7, <2>1 DEF S!Policy, S!First, S!Else
  <2> QED
    BY <1>7, <2>2 DEF S!Shows, S!Load
<1>8. CASE k = "tokens"
  <2>1. S!Full(S!Said(env, "tokens")) = "unset"
    BY <1>2, <1>8 DEF Clear, S!Parsed
  <2>2. S!Tokens(d) = v
    BY <1>4, <1>8, <2>1 DEF S!Tokens, S!Else
  <2> QED
    BY <1>8, <2>2 DEF S!Shows, S!Load
<1>9. CASE k = "admin"
  <2>1. S!Said(env, "admin") = "unset"
    BY <1>3, <1>9 DEF Clear, S!Parsed
  <2>2. S!Admin(d) = v
    BY <1>9, <2>1 DEF S!Admin, S!Else
  <2> QED
    BY <1>9, <2>2 DEF S!Shows, S!Load
<1>10. CASE k = "limit"
  <2>1. S!Limit(d) = v
    BY <1>3, <1>10 DEF S!Limit, S!Else
  <2> QED
    BY <1>10, <2>1 DEF S!Shows, S!Load
<1>11. CASE k = "mode"
  <2>1. S!Said(env, "mode") = "unset" /\ v # "bad"
    BY <1>11 DEF S!Shadowed, S!Idle
  <2>2. S!Mode(d) = v
    BY <1>2, <1>11, <2>1 DEF S!Mode, S!First, S!Else
  <2> QED
    BY <1>11, <2>2 DEF S!Shows, S!Load
<1>12. CASE k \in {"primary", "proxies"}
  <2>1. S!NamedPool(S!Silence) = "unset"
    BY <1>12 DEF S!Shadowed
  <2>2. S!Full(S!Said(env, "primary")) = "unset" /\ S!Full(S!Said(env, "proxies")) = "unset"
    BY <2>1 DEF S!NamedPool, S!Else
  <2>3. k = "primary" => S!NamedPool(d) = v
    BY <1>4, <2>2 DEF S!NamedPool, S!Else
  <2>4. k = "proxies" => S!Full(S!Said(d, "primary")) = "unset"
    BY DEF S!Idle
  <2>5. k = "proxies" => S!NamedPool(d) = v
    BY <1>4, <2>2, <2>4 DEF S!NamedPool, S!FileProxies, S!Else
  <2>6. S!Load(d).primary = v
    BY <1>12, <2>3, <2>5 DEF S!Load, S!Else
  <2> QED
    BY <1>12, <2>6 DEF S!Shows
<1>13. CASE k = "exits"
  <2>1. S!Exits(d) = v
    BY <1>3, <1>13 DEF S!Exits, S!Else
  <2> QED
    BY <1>13, <2>1 DEF S!Shows, S!Load
<1>14. CASE k = "fallback"
  <2>1. S!Fallback(d) = v
    BY <1>3, <1>14 DEF S!Fallback, S!Else
  <2> QED
    BY <1>14, <2>1 DEF S!Shows, S!Load
<1>15. CASE k = "base"
  <2>1. S!Base(d) = v
    BY <1>3, <1>15 DEF S!Base, S!Else
  <2> QED
    BY <1>15, <2>1 DEF S!Shows, S!Load
<1>16. CASE k = "max"
  <2>1. S!Max(d) = v
    BY <1>3, <1>16 DEF S!Max, S!Else
  <2> QED
    BY <1>16, <2>1 DEF S!Shows, S!Load
<1>17. CASE k = "url"
  <2>1. S!Said(env, "url") = "unset"
    BY <1>17 DEF S!Shadowed
  <2>2. S!Url(d) = v
    BY <1>2, <1>17, <2>1 DEF S!Url, S!First, S!Else
  <2> QED
    BY <1>17, <2>2 DEF S!Shows, S!Load
<1>18. CASE k = "key"
  <2>1. S!Said(env, "key") = "unset"
    BY <1>3, <1>18 DEF Clear, S!Parsed
  <2>2. S!Key(d) = v
    BY <1>2, <1>18, <2>1 DEF S!Key, S!First, S!Else, S!Shadowed
  <2> QED
    BY <1>18, <2>2 DEF S!Shows, S!Load
<1>19. CASE k = "keys"
  <2>1. S!Keys(d) = v
    BY <1>19 DEF S!Keys, S!Shadowed
  <2> QED
    BY <1>19, <2>1 DEF S!Shows, S!Load
<1>20. CASE k = "search"
  <2>1. S!Said(env, "search") = "unset"
    BY <1>20 DEF S!Shadowed
  <2>2. S!Search(d) = v
    BY <1>20, <2>1 DEF S!Search, S!Else
  <2> QED
    BY <1>20, <2>2 DEF S!Shows, S!Load
<1>21. CASE k = "searxng"
  <2>1. S!Said(env, "searxng") = "unset"
    BY <1>21 DEF S!Shadowed
  <2>2. S!SearxNG(d) = v
    BY <1>2, <1>21, <2>1 DEF S!SearxNG, S!First, S!Else
  <2> QED
    BY <1>21, <2>2 DEF S!Shows, S!Load
<1>22. CASE k = "private"
  <2>1. S!Private(d) = v
    BY <1>3, <1>22 DEF S!Private, S!Else
  <2> QED
    BY <1>22, <2>1 DEF S!Shows, S!Load
<1>23. CASE k = "reasoning"
  <2>1. v # "zero"
    BY <1>23 DEF S!Idle
  <2>2. S!Reasoning(d) = v
    BY <1>3, <1>23, <2>1 DEF S!Reasoning, S!Else
  <2> QED
    BY <1>23, <2>2 DEF S!Shows, S!Load
<1> QED
  BY <1>5, <1>6, <1>7, <1>8, <1>9, <1>10, <1>11, <1>12, <1>13, <1>14, <1>15, <1>16,
     <1>17, <1>18, <1>19, <1>20, <1>21, <1>22, <1>23 DEF S!Known, S!Settings

\* What the program refuses although the dashboard has accepted the document.
LEMMA RefusedUnforeseen ==
  ASSUME Clear, NEW d, S!Acceptable(d), S!Refusal(S!Load(d)) # "none"
  PROVE  S!Unforeseen(S!Refusal(S!Load(d)), d)
<1> DEFINE c == S!Load(d)
           reason == S!Refusal(c)
<1>1. /\ c.url = S!Url(d) /\ c.key = S!Key(d) /\ c.limit = S!Limit(d)
      /\ c.base = S!Base(d) /\ c.max = S!Max(d)
  BY DEF S!Load
<1>2. ~S!Shadowed("url") => c.url = S!Else(S!Said(d, "url"), "https")
  BY <1>1 DEF S!Shadowed, S!Url, S!First, S!Else
<1>3. ~S!Shadowed("limit") => c.limit = S!Else(S!Said(d, "limit"), "some")
  BY <1>1 DEF S!Shadowed, S!Limit, S!Else, S!Full, S!Parsed, Clear, S!Settings
<1>4. ~S!Shadowed("base") => c.base = S!Else(S!Said(d, "base"), "low")
  BY <1>1 DEF S!Shadowed, S!Base, S!Else, S!Full, S!Parsed, Clear, S!Settings
<1>5. ~S!Shadowed("max") => c.max = S!Else(S!Said(d, "max"), "high")
  BY <1>1 DEF S!Shadowed, S!Max, S!Else, S!Full, S!Parsed, Clear, S!Settings
<1>6. ~S!Shadowed("key") => c.key = S!Else(S!Said(d, "key"), S!Said(d, "keys"))
  BY <1>1 DEF S!Shadowed, S!Key, S!Keys, S!First, S!Else, S!Full, S!Parsed, Clear, S!Settings
<1> SUFFICES S!Unforeseen(reason, d)
  OBVIOUS
<1> HIDE DEF c
<1>7. CASE reason = "url"
  <2>1. c.url = "bad"
    BY <1>7 DEF S!Refusal, S!Transport
  <2>2. ~S!Shadowed("url") => "url" \in DOMAIN d /\ d.url = "bad"
    BY <1>2, <2>1 DEF S!Else, S!Said
  <2> QED
    BY <1>7, <2>2 DEF S!Unforeseen, S!Acceptable, S!Transport
<1>8. CASE reason = "transport"
  <2>1. c.url = "http" /\ c.key # "unset"
    BY <1>8 DEF S!Refusal, S!Transport
  <2>2. ~S!Shadowed("url") => "url" \in DOMAIN d /\ d.url = "http"
    BY <1>2, <2>1 DEF S!Else, S!Said
  <2>3. ~S!Shadowed("key") /\ "keys" \notin DOMAIN d => "key" \in DOMAIN d
    BY <1>6, <2>1 DEF S!Else, S!Said
  <2> QED
    BY <1>8, <2>2, <2>3 DEF S!Unforeseen, S!Acceptable, S!Transport
<1>9. CASE reason = "limit"
  <2>1. c.limit = "zero"
    BY <1>9 DEF S!Refusal, S!Transport
  <2>2. ~S!Shadowed("limit") => S!Said(d, "limit") = "zero"
    BY <1>3, <2>1 DEF S!Else
  <2> QED
    BY <1>9, <2>2 DEF S!Unforeseen, S!Acceptable
<1>10. CASE reason = "backoff"
  <2>1. S!Later(c.base, c.max)
    BY <1>10 DEF S!Refusal, S!Transport
  <2>2. ASSUME ~S!Shadowed("base"), ~S!Shadowed("max"), {"base", "max"} \subseteq DOMAIN d
        PROVE  FALSE
    <3>1. S!Later(d.base, d.max)
      BY <1>4, <1>5, <2>1, <2>2 DEF S!Later, S!Else, S!Said
    <3> QED
      BY <2>2, <3>1 DEF S!Acceptable
  <2> QED
    BY <1>10, <2>2 DEF S!Unforeseen
<1>11. CASE reason \notin {"url", "transport", "limit", "backoff"}
  BY <1>11 DEF S!Unforeseen
<1> QED
  BY <1>7, <1>8, <1>9, <1>10, <1>11

\* What the program heeds of the document it reads, before a change: what the
\* migration makes of it.
LEMMA HeededMigrated ==
  ASSUME NEW doc, NEW existing, existing = IF doc = S!Missing THEN S!Blank ELSE doc,
         doc = S!Missing \/ ~S!InError(doc)
  PROVE  \A j : S!Said(S!FromFile(doc), j) = S!Said(S!Migrated(existing).body, j)
<1>1. CASE doc = S!Missing
  <2>1. S!FromFile(doc) = S!Silence
    BY <1>1 DEF S!FromFile
  <2>2. DOMAIN S!Silence = {}
    BY DEF S!Silence
  <2>3. DOMAIN S!Migrated(S!Blank).body = {}
    BY <2>2 DEF S!Migrated, S!Blank, S!Document
  <2> QED
    BY <1>1, <2>1, <2>2, <2>3 DEF S!Said
<1>2. CASE doc # S!Missing
  BY <1>2 DEF S!FromFile
<1> QED
  BY <1>1, <1>2

\* A sound document of the newest version, of known keys and their types, is
\* heeded as it is.
LEMMA HeededWhole ==
  ASSUME NEW body, body = [j \in DOMAIN body |-> body[j]],
         DOMAIN body \subseteq S!Known, S!Typed(body)
  PROVE  /\ S!Document(1, body) # S!Missing
         /\ S!FromFile(S!Document(1, body)) = body
<1> DEFINE doc == S!Document(1, body)
<1>1. doc # S!Missing
  <2>1. "sound" \in DOMAIN doc
    BY DEF S!Document
  <2>2. "sound" \notin DOMAIN S!Missing
    BY DEF S!Missing
  <2> QED
    BY <2>1, <2>2
<1>2. doc.sound /\ doc.version = 1 /\ doc.body = body
  BY DEF S!Document
<1>3. S!Migratable(doc)
  BY <1>2 DEF S!Migratable
<1>4. S!Migrated(doc).body = body
  <2>1. "retired" \notin DOMAIN body
    BY DEF S!Known, S!Settings
  <2> HIDE DEF doc
  <2> QED
    BY <1>2, <2>1 DEF S!Migrated, S!Document
<1>5. S!FromFile(doc) = body
  BY <1>1, <1>2, <1>3, <1>4 DEF S!FromFile, S!InError
<1> QED
  BY <1>1, <1>5

\* Of a change, what remains to be migrated: its setting under its name of today,
\* unless it is retired.
LEMMA ChangeMigrated ==
  ASSUME NEW k, NEW v, NEW K, K = IF k = "bridge_port" THEN "port" ELSE k,
         NEW change, change = [j \in {k} |-> v]
  PROVE  S!Migrated(S!Document(0, change)).body = [j \in {K} \ {"retired"} |-> v]
<1> DEFINE doc == S!Document(0, change)
           old == doc.version = 0 /\ "bridge_port" \in DOMAIN doc.body
           kept == DOMAIN doc.body \ ({"retired"} \cup IF old THEN {"bridge_port"} ELSE {})
           keys == kept \cup (IF old THEN {"port"} ELSE {})
           incoming == [j \in keys |->
                         IF old /\ j = "port" THEN doc.body["bridge_port"] ELSE doc.body[j]]
<1>1. doc.body = change /\ doc.version = 0
  BY DEF S!Document
<1>2. S!Migrated(doc).body = incoming
  BY DEF S!Migrated, S!Document
<1>3. doc.body = [j \in {k} |-> v] /\ doc.version = 0
  BY <1>1
<1> HIDE DEF doc
<1>4. old <=> k = "bridge_port"
  BY <1>3
<1>5. keys = {K} \ {"retired"}
  <2>1. DOMAIN doc.body = {k}
    BY <1>3
  <2>2. CASE k = "bridge_port"
    BY <1>4, <2>1, <2>2
  <2>3. CASE k # "bridge_port"
    BY <1>4, <2>1, <2>3
  <2> QED
    BY <2>2, <2>3
<1>6. \A j \in keys :
        (IF old /\ j = "port" THEN doc.body["bridge_port"] ELSE doc.body[j]) = v
  <2>1. CASE k = "bridge_port"
    BY <1>3, <1>4, <1>5, <2>1
  <2>2. CASE k # "bridge_port"
    BY <1>3, <1>4, <1>5, <2>2
  <2> QED
    BY <2>1, <2>2
<1> HIDE DEF keys, old
<1>7. incoming = [j \in {K} \ {"retired"} |-> v]
  BY <1>5, <1>6
<1> QED
  BY <1>2, <1>7 DEF doc

\* A change that is accepted, of a setting that is heeded.
LEMMA AppliedStep ==
  ASSUME SettingsInv, NEW k \in DOMAIN S!FileValues, NEW v \in S!FileValues[k],
         S!Apply(k, v), last'.answer = "ok"
  PROVE  \E d \in {S!Heeded}, e \in {S!Heeded'} :
         \E before \in {S!Load(d)}, after \in {S!Load(e)} :
           LET K == last'.key
               w == last'.value
               body == files'[S!ConfigPath'].body
           IN  /\ \/ files[S!ConfigPath] # S!Missing /\ S!InError(files[S!ConfigPath])
                  \/ \A j \in DOMAIN before \ S!Related(K) : after[j] = before[j]
               /\ ~S!Shadowed(K) /\ ~S!Idle(K, w, body) => S!Shows(after, K) = w
               /\ S!Refusal(after) # "none" => S!Unforeseen(S!Refusal(after), body)
<1> DEFINE path == S!ConfigPath
           K == IF k = "bridge_port" THEN "port" ELSE k
           doc == files[path]
           existing == IF doc = S!Missing THEN S!Blank ELSE doc
           held == S!Migrated(existing).body
           change == [j \in {k} |-> v]
           incoming == S!Migrated(S!Document(0, change)).body
           merged == S!Merge(held, incoming)
           new == S!Document(1, merged)
<1>1. /\ DOMAIN incoming \subseteq S!Known /\ S!Acceptable(merged)
      /\ files' = [files EXCEPT ![path] = new]
      /\ last'.key = K /\ last'.value = v
  <2> DEFINE fine == /\ DOMAIN incoming \subseteq S!Known
                     /\ existing.sound /\ S!Migratable(existing)
                     /\ S!Acceptable(merged)
  <2>1. /\ files' = IF fine THEN [files EXCEPT ![path] = new] ELSE files
        /\ last' = [key |-> K, value |-> v, answer |-> IF fine THEN "ok" ELSE "refused"]
    BY DEF S!Apply
  <2>2. last'.answer = (IF fine THEN "ok" ELSE "refused") /\ last'.key = K /\ last'.value = v
    BY <2>1
  <2> HIDE DEF fine
  <2>3. fine
    BY <2>2
  <2>4. files' = [files EXCEPT ![path] = new]
    BY <2>1, <2>3
  <2> QED
    BY <2>2, <2>3, <2>4 DEF fine
<1>2. incoming = [j \in {K} \ {"retired"} |-> v]
  <2>1. K = IF k = "bridge_port" THEN "port" ELSE k
    OBVIOUS
  <2>2. change = [j \in {k} |-> v]
    OBVIOUS
  <2> HIDE DEF K, change
  <2> QED
    BY <2>1, <2>2, ChangeMigrated
<1> HIDE DEF incoming
<1>3. /\ merged = [j \in DOMAIN merged |-> merged[j]]
      /\ DOMAIN merged = DOMAIN held \cup DOMAIN incoming
      /\ \A j \in DOMAIN merged :
           merged[j] = IF j \in DOMAIN incoming THEN incoming[j] ELSE held[j]
  BY DEF S!Merge
<1> HIDE DEF existing, held, merged
<1>4. \A j : j # K => S!Said(merged, j) = S!Said(held, j)
  BY <1>2, <1>3 DEF S!Said
<1>5. K # "retired" => S!Said(merged, K) = v
  BY <1>2, <1>3 DEF S!Said
<1>6. DOMAIN merged \subseteq S!Known /\ S!Typed(merged)
  BY <1>1 DEF S!Acceptable
<1>7. new # S!Missing /\ S!FromFile(new) = merged
  BY <1>3, <1>6, HeededWhole
<1>8. path \in {"local", "home"}
  BY DEF S!ConfigPath
<1>9. new.body = merged
  BY DEF S!Document
<1> HIDE DEF new
<1>10. S!ConfigPath' = path /\ files'[path] = new
  <2>1. files'[path] = new /\ \A p \in {"local", "home"} : p # path => files'[p] = files[p]
    BY <1>1, <1>8 DEF SettingsInv
  <2>2. CASE path = "local"
    BY <1>7, <2>1, <2>2 DEF S!ConfigPath
  <2>3. CASE path = "home"
    <3>1. files["local"] = S!Missing
      BY <2>3 DEF S!ConfigPath
    <3>2. files'["local"] = S!Missing
      BY <2>1, <2>3, <3>1
    <3>3. files'["home"] # S!Missing
      BY <1>7, <2>1, <2>3
    <3> QED
      BY <2>1, <2>3, <3>2, <3>3 DEF S!ConfigPath
  <2> QED
    BY <1>8, <2>2, <2>3
<1>11. S!Heeded' = merged /\ files'[S!ConfigPath'].body = merged
  BY <1>7, <1>9, <1>10 DEF S!Heeded
<1>12. doc = S!Missing \/ ~S!InError(doc) =>
         \A j \in DOMAIN S!Load(S!Heeded) \ S!Related(K) :
           S!Load(merged)[j] = S!Load(S!Heeded)[j]
  <2> SUFFICES ASSUME doc = S!Missing \/ ~S!InError(doc)
               PROVE  \A j \in DOMAIN S!Load(S!Heeded) \ S!Related(K) :
                        S!Load(merged)[j] = S!Load(S!Heeded)[j]
    OBVIOUS
  <2>1. \A j : S!Said(S!Heeded, j) = S!Said(held, j)
    <3>1. S!Heeded = S!FromFile(doc)
      BY DEF S!Heeded
    <3> QED
      BY <3>1, HeededMigrated DEF existing, held
  <2>2. \A j : j # K => S!Said(merged, j) = S!Said(S!Heeded, j)
    BY <1>4, <2>1
  <2> QED
    BY <2>2, ShownAlike
<1>13. Clear
  BY EnvironmentClear
<1>14. ~S!Shadowed(K) /\ ~S!Idle(K, v, merged) => S!Shows(S!Load(merged), K) = v
  <2> SUFFICES ASSUME ~S!Shadowed(K), ~S!Idle(K, v, merged)
               PROVE  S!Shows(S!Load(merged), K) = v
    OBVIOUS
  <2>1. K # "retired"
    BY DEF S!Idle
  <2>2. K \in S!Known
    BY <1>1, <1>2, <2>1
  <2>3. v # "unset"
    BY DEF S!FileValues
  <2> QED
    BY <1>1, <1>5, <1>13, <2>1, <2>2, <2>3, InEffect
<1>15. S!Refusal(S!Load(merged)) # "none" =>
         S!Unforeseen(S!Refusal(S!Load(merged)), merged)
  BY <1>1, <1>13, RefusedUnforeseen
<1> QED
  BY <1>1, <1>11, <1>12, <1>14, <1>15

\* A step of the operator or the dashboard.
LEMMA SettingsKeep == SettingsInv /\ S!StartupNext => SettingsInv'
<1> SUFFICES ASSUME SettingsInv, S!StartupNext PROVE SettingsInv'
  OBVIOUS
<1>1. env' = env
  BY DEF S!StartupNext
<1>2. files' = files \/ \E path, doc : files' = [files EXCEPT ![path] = doc]
  <2>1. CASE \E k \in DOMAIN S!FileValues : \E v \in S!FileValues[k] : S!Apply(k, v)
    BY <2>1 DEF S!Apply
  <2>2. CASE \E k \in DOMAIN S!FileValues : \E v \in S!FileValues[k] : S!Edit(k, v)
    BY <2>2 DEF S!Edit
  <2>3. CASE S!Spoil
    BY <2>3 DEF S!Spoil
  <2> QED
    BY <2>1, <2>2, <2>3 DEF S!StartupNext
<1>3. files' = [p \in {"local", "home"} |-> files'[p]]
  BY <1>2 DEF SettingsInv
<1> QED
  BY <1>1, <1>3 DEF SettingsInv

(* What the environment says stays what it said at the start, and there are two
   places a configuration may be in (config/loader.rs). *)
THEOREM SettingsInvariant == ServicesSpec => []SettingsInv
<1>1. ServicesInit => SettingsInv
  <2> SUFFICES ASSUME ServicesInit PROVE SettingsInv
    OBVIOUS
  <2>1. S!StartupInit
    BY DEF ServicesInit
  <2>2. files = [p \in {"local", "home"} |-> files[p]]
    BY <2>1 DEF S!StartupInit, S!NoFiles
  <2> QED
    BY <2>1, <2>2 DEF S!StartupInit, SettingsInv
<1>2. SettingsInv /\ [ServicesNext]_allVars => SettingsInv'
  <2>1. SettingsInv /\ UNCHANGED startupVars => SettingsInv'
    BY DEF startupVars, SettingsInv
  <2>2. [ServicesNext]_allVars => S!StartupNext \/ UNCHANGED startupVars
    BY DEF ServicesNext, allVars
  <2> QED
    BY <2>1, <2>2, SettingsKeep
<1> QED
  BY <1>1, <1>2, PTL DEF ServicesSpec

(* A change that the dashboard accepts is in effect after the restart, changes
   nothing else, and is not what keeps the program from starting, whatever the
   flags, the environment and the older document say (config_apply.rs against
   config/loader.rs and security.rs). *)
THEOREM SettingsApplyAsMeant == ServicesSpec => AppliedAsMeant
<1> DEFINE Meant ==
      last'.answer = "ok" /\ changes' # changes =>
        \E d \in {S!Heeded}, e \in {S!Heeded'} :
        \E before \in {S!Load(d)}, after \in {S!Load(e)} :
          LET k == last'.key
              v == last'.value
              body == files'[S!ConfigPath'].body
          IN  /\ \/ files[S!ConfigPath] # S!Missing /\ S!InError(files[S!ConfigPath])
                 \/ \A j \in DOMAIN before \ S!Related(k) : after[j] = before[j]
              /\ ~S!Shadowed(k) /\ ~S!Idle(k, v, body) => S!Shows(after, k) = v
              /\ S!Refusal(after) # "none" => S!Unforeseen(S!Refusal(after), body)
<1>1. SettingsInv /\ [ServicesNext]_allVars => [Meant]_startupVars
  <2> SUFFICES ASSUME SettingsInv, ServicesNext, last'.answer = "ok", changes' # changes
               PROVE  Meant
    BY DEF allVars, startupVars
  <2>1. S!StartupNext
    BY DEF ServicesNext, startupVars
  <2>2. \A k, v : S!Edit(k, v) => last'.answer = "none"
    BY DEF S!Edit
  <2>3. S!Spoil => last'.answer = "none"
    BY DEF S!Spoil
  <2>4. PICK k \in DOMAIN S!FileValues : \E v \in S!FileValues[k] : S!Apply(k, v)
    BY <2>1, <2>2, <2>3 DEF S!StartupNext
  <2> QED
    BY <2>4, AppliedStep
<1> HIDE DEF Meant
<1>2. ServicesSpec => [][Meant]_startupVars
  BY <1>1, SettingsInvariant, PTL DEF ServicesSpec
<1> QED
  BY <1>2 DEF AppliedAsMeant, S!AppliedAsMeant, Meant, startupVars, S!startupVars

=============================================================================
