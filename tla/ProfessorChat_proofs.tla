------------------------ MODULE ProfessorChat_proofs ------------------------
(* What ProfessorChat keeps for any conversations and any bounds: what is  *)
(* in a list is at the server or waits to be stored there, a stored text   *)
(* has one copy for each answer that was lost at most, and the student's   *)
(* list shows a message once.                                              *)
EXTENDS ProfessorChat, Lists_proofs, FiniteSetTheorems, TLAPS

Entry == [id : Int, text : Int, rev : Nat, st : {"sent", "sending", "failed"}]

ChatShape ==
    /\ side \in {"student", "professor"} /\ open \in Conversation
    /\ server \in [Conversation -> Seq(Entry)] /\ written \in Seq(Int)
    /\ cache \in [Conversation -> [conv : Conversation, items : Seq(Entry)]]
    /\ fetch \in [Conversation -> [st : {"none", "asked", "read"}, items : Seq(Entry)]]
    /\ requests \subseteq [kind : {"send", "retry", "edit", "delete"}, conv : Conversation,
                           item : Entry, at : {"asked", "done", "failed"}, id : Nat]
    /\ mode \in {"starting", "listening", "polling"} /\ (barred => mode = "polling")
    /\ typed \in 0 .. MaxTexts /\ others \in Nat
    /\ unanswered \in 0 .. chatFailures /\ chatFailures \in 0 .. MaxChatFailures

\* A message of the server, and one that only the page has.
AtServer(m) == m.st = "sent" /\ m.id \in 1 .. Len(written) /\ written[m.id] = m.text
Unsent(m) == m.st # "sent" /\ m.text \in 1 .. typed /\ m.id = -m.text

Distinct(items) == \A i, j \in DOMAIN items : items[i].id = items[j].id => i = j

\* The server's lists and what was read of them hold messages of the server; the list
\* kept under key c also holds, if it is of that conversation, messages of a student that
\* wait to be stored.  The student's lists hold nothing twice.
ServedIn(items) ==
    /\ \A i \in DOMAIN items : AtServer(items[i])
    /\ side = "student" => Distinct(items)

KeptUnder(c, kept) ==
    /\ \A i \in DOMAIN kept.items :
          \/ AtServer(kept.items[i])
          \/ side = "student" /\ kept.conv = c /\ Unsent(kept.items[i])
    /\ side = "student" => Distinct(kept.items)

ListsAreTrue ==
    \A c \in Conversation :
        ServedIn(server[c]) /\ ServedIn(fetch[c].items) /\ KeptUnder(c, cache[c])

\* The requests that store a text.
Posts == {r \in requests : r.kind \in {"send", "retry"}}

RequestsAreTrue ==
    /\ \A r \in requests \ Posts : AtServer(r.item)
    /\ \A r \in Posts :
          /\ Unsent(r.item)
          /\ r.at = "done" => r.id \in 1 .. Len(written) /\ written[r.id] = r.item.text
          /\ side = "professor" => r.kind = "send" /\ r.item.text = typed
    /\ \A r, q \in Posts : r.item.text = q.item.text => r = q

\* The list kept under key c holds text t in state s.
Waits(c, t, s) ==
    \E i \in DOMAIN cache[c].items : cache[c].items[i].text = t /\ cache[c].items[i].st = s

\* A text waits under one key, that of the conversation it is being sent to, and is not
\* marked as failed as long as its request is under way.
TextsHaveOneHome ==
    \A t \in Int, c \in Conversation, s \in {"sending", "failed"} :
        Waits(c, t, s) =>
            /\ \A d \in Conversation, z \in {"sending", "failed"} : Waits(d, t, z) => d = c
            /\ \A r \in Posts : r.item.text = t => r.conv = c /\ s = "sending"

\* Text t may be stored once more: it is not typed yet, a request for it has not reached
\* the server or was not answered, or the student is offered to send it again.
MayBeStored(t) ==
    \/ t > typed
    \/ \E r \in Posts : r.item.text = t /\ r.at # "done"
    \/ \E c \in Conversation : Waits(c, t, "failed")

Copies(t) == {i \in DOMAIN written : written[i] = t}

CopiesAreCounted ==
    \A t \in 1 .. MaxTexts :
        /\ Cardinality(Copies(t)) <= 1 + unanswered
        /\ MayBeStored(t) => Cardinality(Copies(t)) <= unanswered

ChatInv ==
    ChatShape /\ ListsAreTrue /\ RequestsAreTrue /\ TextsHaveOneHome /\ CopiesAreCounted

-----------------------------------------------------------------------------
(* The operations on lists. *)

\* What stays of a list is in it, once if it was there once.
LEMMA WithoutIsList ==
  ASSUME NEW items \in Seq(Entry), NEW K \in SUBSET DOMAIN items
  PROVE  /\ Kept(items, K) \in Seq(Entry)
         /\ \A i \in DOMAIN Kept(items, K) : \E j \in K : Kept(items, K)[i] = items[j]
         /\ (\A i, j \in K : items[i].id = items[j].id => i = j) => Distinct(Kept(items, K))
<1> DEFINE W == Kept(items, K)
           N == 1 .. Cardinality(K)
<1>1. /\ W \in Seq(Entry) /\ Len(W) = Cardinality(K)
      /\ \A n \in N : W[n] = items[Place(K)[n]]
  BY KeptIsList
<1>2. /\ Cardinality(K) \in Nat /\ Place(K) \in [N -> K]
      /\ \A l, n \in N : l < n => Place(K)[l] < Place(K)[n]
  BY PlacesInOrder, Len(items) \in Nat, DOMAIN items = 1 .. Len(items)
<1>3. DOMAIN W = N
  BY <1>1
<1> HIDE DEF W
<1>4. \A i \in DOMAIN W : \E j \in K : W[i] = items[j]
  BY <1>1, <1>2, <1>3
<1>5. ASSUME \A i, j \in K : items[i].id = items[j].id => i = j PROVE Distinct(W)
  <2>1. SUFFICES ASSUME NEW l \in N, NEW n \in N, W[l].id = W[n].id, l # n PROVE FALSE
    BY <1>3 DEF Distinct
  <2>2. Place(K)[l] \in K /\ Place(K)[n] \in K
    BY <1>2
  <2>3. Place(K)[l] = Place(K)[n]
    BY <1>1, <1>5, <2>1, <2>2
  <2>4. \A k \in K : k \in Nat
    OBVIOUS
  <2>5. l < n \/ n < l
    BY <1>2, <2>1
  <2> QED  BY <1>2, <2>2, <2>3, <2>4, <2>5
<1> QED  BY <1>1, <1>4, <1>5 DEF W

\* Marking messages moves and renames none.
LEMMA MarkedIsList ==
  ASSUME NEW items \in Seq(Entry), NEW id, NEW st \in {"sent", "sending", "failed"}
  PROVE  /\ Marked(items, id, st) \in Seq(Entry)
         /\ DOMAIN Marked(items, id, st) = DOMAIN items
         /\ \A i \in DOMAIN items :
               /\ Marked(items, id, st)[i].id = items[i].id
               /\ Marked(items, id, st)[i].text = items[i].text
               /\ Marked(items, id, st)[i].st = IF items[i].id = id THEN st ELSE items[i].st
<1>1. \A m \in Entry :
        /\ [m EXCEPT !.st = st] \in Entry /\ [m EXCEPT !.st = st].id = m.id
        /\ [m EXCEPT !.st = st].text = m.text
        /\ [m EXCEPT !.st = st].st = st
  BY DEF Entry
<1>2. /\ Len(items) \in Nat /\ DOMAIN items = 1 .. Len(items)
      /\ \A i \in DOMAIN items : items[i] \in Entry
  OBVIOUS
<1>3. Marked(items, id, st) \in [1 .. Len(items) -> Entry]
  BY <1>1, <1>2 DEF Marked
<1> QED  BY <1>1, <1>2, <1>3 DEF Marked

\* Nor does revising them.
LEMMA RevisedIsList ==
  ASSUME NEW items \in Seq(Entry), NEW id, NEW rev \in Nat
  PROVE  /\ Revised(items, id, rev) \in Seq(Entry)
         /\ DOMAIN Revised(items, id, rev) = DOMAIN items
         /\ \A i \in DOMAIN items :
               /\ Revised(items, id, rev)[i].id = items[i].id
               /\ Revised(items, id, rev)[i].text = items[i].text
               /\ Revised(items, id, rev)[i].st = items[i].st
<1>1. \A m \in Entry :
        /\ [m EXCEPT !.rev = rev] \in Entry /\ [m EXCEPT !.rev = rev].id = m.id
        /\ [m EXCEPT !.rev = rev].text = m.text
        /\ [m EXCEPT !.rev = rev].st = m.st
  BY DEF Entry
<1>2. /\ Len(items) \in Nat /\ DOMAIN items = 1 .. Len(items)
      /\ \A i \in DOMAIN items : items[i] \in Entry
  OBVIOUS
<1>3. Revised(items, id, rev) \in [1 .. Len(items) -> Entry]
  BY <1>1, <1>2 DEF Revised
<1> QED  BY <1>1, <1>2, <1>3 DEF Revised

\* A message put at the end of a list it is not in.
LEMMA AppendedIsList ==
  ASSUME NEW items \in Seq(Entry), NEW m \in Entry
  PROVE  /\ Append(items, m) \in Seq(Entry)
         /\ DOMAIN Append(items, m) = 1 .. Len(items) + 1
         /\ \A i \in DOMAIN items : i \in 1 .. Len(items) + 1 /\ Append(items, m)[i] = items[i]
         /\ \A i \in 1 .. Len(items) + 1 :
               \/ Append(items, m)[i] = m
               \/ i \in DOMAIN items /\ Append(items, m)[i] = items[i]
         /\ Distinct(items) /\ (\A i \in DOMAIN items : items[i].id # m.id) =>
               Distinct(Append(items, m))
<1>1. Len(items) \in Nat /\ DOMAIN items = 1 .. Len(items)
  OBVIOUS
<1>2. /\ Append(items, m) \in Seq(Entry) /\ Len(Append(items, m)) = Len(items) + 1
      /\ \A i \in 1 .. Len(items) : Append(items, m)[i] = items[i]
      /\ Append(items, m)[Len(items) + 1] = m
  OBVIOUS
<1>3. DOMAIN Append(items, m) = 1 .. Len(items) + 1
  BY <1>1, <1>2
<1>4. \A i \in 1 .. Len(items) + 1 : i \in 1 .. Len(items) \/ i = Len(items) + 1
  BY <1>1
<1> QED  BY <1>1, <1>2, <1>3, <1>4 DEF Distinct

\* The answer to a send leaves what was in the list in it, and the message once.
LEMMA AnsweredIsList ==
  ASSUME NEW items \in Seq(Entry), NEW o, NEW m \in Entry
  PROVE  /\ replaceOptimisticMessage(items, o, m) \in Seq(Entry)
         /\ \A i \in DOMAIN replaceOptimisticMessage(items, o, m) :
               \/ replaceOptimisticMessage(items, o, m)[i] = m
               \/ \E j \in DOMAIN items : replaceOptimisticMessage(items, o, m)[i] = items[j]
         /\ Distinct(items) => Distinct(replaceOptimisticMessage(items, o, m))
<1> DEFINE put == Replaced(items, o, m)
           K == {i \in DOMAIN put :
                   ~(/\ put[i].id = m.id /\ \E j \in 1 .. i - 1 : put[j].id = m.id)}
<1>0. Len(items) \in Nat /\ DOMAIN items = 1 .. Len(items)
  OBVIOUS
<1>1. /\ put \in [1 .. Len(items) -> Entry]
      /\ \A i \in DOMAIN items : put[i] = IF items[i].id = o THEN m ELSE items[i]
  BY <1>0 DEF Replaced
<1>2. put \in Seq(Entry) /\ DOMAIN put = DOMAIN items
  BY <1>0, <1>1
<1> HIDE DEF put
<1>3. CASE Holds(put, m.id)
  <2>1. replaceOptimisticMessage(items, o, m) = Kept(put, K)
    BY <1>3 DEF replaceOptimisticMessage, put
  <2>2. ASSUME Distinct(items), NEW i \in K, NEW j \in K, put[i].id = put[j].id, i < j
        PROVE  FALSE
    <3>1. i \in DOMAIN items /\ j \in DOMAIN items
      BY <1>2
    <3>2. i \in 1 .. j - 1
      BY <1>0, <2>2, <3>1
    <3>3. put[j].id # m.id
      BY <2>2, <3>2
    <3>4. put[i] = items[i] /\ put[j] = items[j]
      BY <1>1, <2>2, <3>1, <3>3
    <3>5. i = j
      BY <2>2, <3>1, <3>4 DEF Distinct
    <3> QED  BY <1>0, <2>2, <3>1, <3>5
  <2>3. ASSUME Distinct(items) PROVE \A i, j \in K : put[i].id = put[j].id => i = j
    <3>1. \A i, j \in K : i = j \/ i < j \/ j < i
      BY <1>0, <1>2
    <3> QED  BY <2>2, <2>3, <3>1
  <2>4. K \in SUBSET DOMAIN put
    OBVIOUS
  <2> HIDE DEF K
  <2>5. /\ Kept(put, K) \in Seq(Entry)
        /\ \A i \in DOMAIN Kept(put, K) : \E j \in K : Kept(put, K)[i] = put[j]
        /\ Distinct(items) => Distinct(Kept(put, K))
    BY <1>2, <2>3, <2>4, WithoutIsList
  <2>6. \A i \in DOMAIN Kept(put, K) :
          Kept(put, K)[i] = m \/ \E j \in DOMAIN items : Kept(put, K)[i] = items[j]
    BY <1>1, <1>2, <2>4, <2>5
  <2> QED  BY <2>1, <2>5, <2>6
<1>4. CASE ~Holds(put, m.id)
  <2>1. replaceOptimisticMessage(items, o, m) = Append(items, m)
    BY <1>4 DEF replaceOptimisticMessage, put
  <2>2. \A i \in DOMAIN items : items[i].id # m.id
    BY <1>1, <1>2, <1>4 DEF Holds
  <2> QED  BY <2>1, <2>2, AppendedIsList
<1> QED  BY <1>3, <1>4

-----------------------------------------------------------------------------
(* The parts of the state, whatever writes them. *)

\* What the server stored stays stored, whatever is stored next.
LEMMA StoredStays ==
  ASSUME written \in Seq(Int),
         written' = written \/ \E t \in Int : written' = Append(written, t)
  PROVE  /\ written' \in Seq(Int) /\ Len(written) \in Nat /\ Len(written') \in Nat
         /\ Len(written') >= Len(written)
         /\ \A i \in 1 .. Len(written) : i \in 1 .. Len(written') /\ written'[i] = written[i]
         /\ \A m : AtServer(m) => AtServer(m)'
<1>1. /\ written' \in Seq(Int) /\ Len(written) \in Nat /\ Len(written') \in Nat
      /\ Len(written') >= Len(written)
      /\ \A i \in 1 .. Len(written) : i \in 1 .. Len(written') /\ written'[i] = written[i]
  <2>1. CASE written' = written
    BY <2>1
  <2>2. ASSUME NEW t \in Int, written' = Append(written, t)
        PROVE  /\ written' \in Seq(Int) /\ Len(written) \in Nat /\ Len(written') \in Nat
               /\ Len(written') >= Len(written)
               /\ \A i \in 1 .. Len(written) : i \in 1 .. Len(written') /\ written'[i] = written[i]
    BY <2>2
  <2> QED  BY <2>1, <2>2
<1> QED  BY <1>1 DEF AtServer

\* The open list is written as a whole.
LEMMA ListIsWritten ==
  ASSUME ChatShape, NEW conv \in Conversation, NEW items \in Seq(Entry), Mutate(conv, items)
  PROVE  /\ cache' \in [Conversation -> [conv : Conversation, items : Seq(Entry)]]
         /\ fetch' \in [Conversation -> [st : {"none", "asked", "read"}, items : Seq(Entry)]]
         /\ cache'[open] = [conv |-> conv, items |-> items]
         /\ \A c \in Conversation : c # open => cache'[c] = cache[c]
         /\ \A c \in Conversation : fetch'[c] = fetch[c] \/ fetch'[c].items = <<>>
<1>1. NoFetch \in [st : {"none", "asked", "read"}, items : Seq(Entry)] /\ NoFetch.items = <<>>
  BY DEF NoFetch
<1>2. [conv |-> conv, items |-> items] \in [conv : Conversation, items : Seq(Entry)]
  OBVIOUS
<1> QED  BY <1>1, <1>2 DEF ChatShape, Mutate

\* What an action may write into the lists.
LEMMA ListsStay ==
  ASSUME ChatShape, ListsAreTrue, side' = side,
         \A m \in Entry : AtServer(m) => AtServer(m)',
         \A m \in Entry : side = "student" /\ Unsent(m) => Unsent(m)',
         \A c \in Conversation : server'[c] = server[c] \/ ServedIn(server[c])',
         \A c \in Conversation :
            fetch'[c].items \in {<<>>, fetch[c].items, server[c]},
         \A c \in Conversation :
            \/ cache'[c] = cache[c]
            \/ cache'[c].items = fetch[c].items
            \/ KeptUnder(c, cache[c])'
  PROVE  ListsAreTrue'
<1>1. \A c \in Conversation :
        /\ server[c] \in Seq(Entry) /\ fetch[c].items \in Seq(Entry)
        /\ cache[c] \in [conv : Conversation, items : Seq(Entry)]
  BY DEF ChatShape
<1>2. ASSUME NEW s \in Seq(Entry), ServedIn(s) PROVE ServedIn(s)'
  BY <1>2 DEF ServedIn
<1>3. ASSUME NEW c, NEW k \in [conv : Conversation, items : Seq(Entry)], KeptUnder(c, k)
      PROVE  KeptUnder(c, k)'
  BY <1>3 DEF KeptUnder
<1>4. <<>> \in Seq(Entry) /\ ServedIn(<<>>)
  BY DEF ServedIn, Distinct
<1>5. ASSUME NEW c \in Conversation PROVE ServedIn(server[c])'
  <2>1. CASE server'[c] = server[c]
    BY <1>1, <1>2, <2>1 DEF ListsAreTrue, ServedIn
  <2> QED  BY <2>1
<1>6. ASSUME NEW c \in Conversation PROVE ServedIn(fetch[c].items)'
  <2>1. fetch'[c].items \in Seq(Entry) /\ ServedIn(fetch'[c].items)
    BY <1>1, <1>4 DEF ListsAreTrue
  <2> QED  BY <1>2, <2>1 DEF ServedIn
<1>7. ASSUME NEW c \in Conversation PROVE KeptUnder(c, cache[c])'
  <2>1. CASE cache'[c] = cache[c]
    BY <1>1, <1>3, <2>1 DEF ListsAreTrue, KeptUnder
  <2>2. CASE cache'[c].items = fetch[c].items
    <3>1. ServedIn(fetch[c].items) /\ fetch[c].items \in Seq(Entry)
      BY <1>1 DEF ListsAreTrue
    <3>2. ServedIn(cache[c].items)'
      BY <1>2, <2>2, <3>1 DEF ServedIn
    <3> QED  BY <3>2 DEF ServedIn, KeptUnder
  <2> QED  BY <2>1, <2>2
<1> QED  BY <1>5, <1>6, <1>7 DEF ListsAreTrue

\* Lists that an action leaves alone.
LEMMA ListsUnchanged ==
  ASSUME ListsAreTrue, UNCHANGED <<side, written, typed, server, cache, fetch>>
  PROVE  ListsAreTrue'
  BY DEF ListsAreTrue, ServedIn, KeptUnder, AtServer, Unsent

\* What the page has for a conversation.
LEMMA CachedIsTrue ==
  ASSUME ChatShape, ListsAreTrue, NEW conv \in Conversation
  PROVE  /\ Cached(conv) \in Seq(Entry)
         /\ side = "student" => Distinct(Cached(conv))
         /\ \A i \in DOMAIN Cached(conv) :
               /\ Cached(conv)[i] \in Entry
               /\ i \in DOMAIN cache[open].items /\ Cached(conv)[i] = cache[open].items[i]
               /\ \/ AtServer(Cached(conv)[i])
                  \/ side = "student" /\ conv = open /\ Unsent(Cached(conv)[i])
<1>1. cache[open].items \in Seq(Entry) /\ KeptUnder(open, cache[open])
  BY DEF ChatShape, ListsAreTrue
<1>2. CASE cache[open].conv = conv
  BY <1>1, <1>2 DEF Cached, KeptUnder
<1>3. CASE cache[open].conv # conv
  BY <1>3 DEF Cached, Distinct
<1> QED  BY <1>2, <1>3

\* Nothing new waits in a list whose waiting messages were in the list before.
LEMMA NothingNewWaits ==
  ASSUME ChatShape, NEW conv \in Conversation, NEW items \in Seq(Entry), Mutate(conv, items),
         \A i \in DOMAIN items : items[i].st # "sent" =>
            \E j \in DOMAIN cache[open].items :
               /\ items[i].text = cache[open].items[j].text
               /\ items[i].st = cache[open].items[j].st
  PROVE  \A c \in Conversation, t \in Int, s \in {"sending", "failed"} :
            Waits(c, t, s)' => Waits(c, t, s)
<1>1. /\ cache'[open] = [conv |-> conv, items |-> items]
      /\ \A c \in Conversation : c # open => cache'[c] = cache[c]
  BY ListIsWritten
<1> QED  BY <1>1 DEF Waits

\* The open list is true if what is written into it is.
LEMMA WrittenIsTrue ==
  ASSUME NEW conv, NEW items, side' = side, open' = open,
         cache'[open] = [conv |-> conv, items |-> items],
         \A i \in DOMAIN items :
            AtServer(items[i])' \/ (side = "student" /\ conv = open /\ Unsent(items[i])'),
         side = "student" => Distinct(items)
  PROVE  KeptUnder(open, cache[open])'
  BY DEF KeptUnder, AtServer, Unsent

\* A change of the open list that stores and types nothing.
LEMMA ListIsRewritten ==
  ASSUME ChatShape, ListsAreTrue, NEW conv \in Conversation, NEW items \in Seq(Entry),
         Mutate(conv, items), UNCHANGED <<side, open, server, written, typed>>,
         \A i \in DOMAIN items :
            AtServer(items[i]) \/ (side = "student" /\ conv = open /\ Unsent(items[i])),
         side = "student" => Distinct(items)
  PROVE  /\ cache' \in [Conversation -> [conv : Conversation, items : Seq(Entry)]]
         /\ fetch' \in [Conversation -> [st : {"none", "asked", "read"}, items : Seq(Entry)]]
         /\ ListsAreTrue'
<1>1. /\ cache' \in [Conversation -> [conv : Conversation, items : Seq(Entry)]]
      /\ fetch' \in [Conversation -> [st : {"none", "asked", "read"}, items : Seq(Entry)]]
      /\ cache'[open] = [conv |-> conv, items |-> items]
      /\ \A c \in Conversation : c # open => cache'[c] = cache[c]
      /\ \A c \in Conversation : fetch'[c] = fetch[c] \/ fetch'[c].items = <<>>
  BY ListIsWritten
<1>2. \A m : (AtServer(m) => AtServer(m)') /\ (Unsent(m) => Unsent(m)')
  BY DEF AtServer, Unsent
<1>3. \A i \in DOMAIN items :
        AtServer(items[i])' \/ (side = "student" /\ conv = open /\ Unsent(items[i])')
  BY <1>2
<1>4. KeptUnder(open, cache[open])'
  BY <1>1, <1>3, WrittenIsTrue
<1>5. \A c \in Conversation : cache'[c] = cache[c] \/ KeptUnder(c, cache[c])'
  <2>1. ASSUME NEW c \in Conversation, c = open PROVE KeptUnder(c, cache[c])'
    BY <1>4, <2>1 DEF KeptUnder, AtServer, Unsent
  <2> QED  BY <1>1, <2>1
<1>6. \A c \in Conversation : fetch'[c].items \in {<<>>, fetch[c].items, server[c]}
  BY <1>1
<1>7. ListsAreTrue'
  BY <1>2, <1>5, <1>6, ListsStay
<1> QED  BY <1>1, <1>7

\* Marking a message that the server does not have.
LEMMA MarkedIsTrue ==
  ASSUME ChatShape, ListsAreTrue, NEW conv \in Conversation, NEW id \in Int, id < 0,
         NEW st \in {"sending", "failed"}
  PROVE  LET L == Marked(Cached(conv), id, st)
         IN  /\ L \in Seq(Entry)
             /\ side = "student" => Distinct(L)
             /\ \A i \in DOMAIN L :
                   /\ AtServer(L[i]) \/ (side = "student" /\ conv = open /\ Unsent(L[i]))
                   /\ L[i].st # "sent" =>
                         /\ i \in DOMAIN cache[open].items
                         /\ cache[open].items[i].text = L[i].text
                         /\ cache[open].items[i].st \in {"sending", "failed"}
                         /\ L[i].st = IF L[i].text = -id THEN st ELSE cache[open].items[i].st
<1> DEFINE L == Marked(Cached(conv), id, st)
           C == Cached(conv)
<1>1. /\ C \in Seq(Entry)
      /\ side = "student" => Distinct(C)
      /\ \A i \in DOMAIN C :
            /\ C[i] \in Entry
            /\ i \in DOMAIN cache[open].items /\ C[i] = cache[open].items[i]
            /\ AtServer(C[i]) \/ (side = "student" /\ conv = open /\ Unsent(C[i]))
  BY CachedIsTrue
<1>2. /\ L \in Seq(Entry) /\ DOMAIN L = DOMAIN C
      /\ \A i \in DOMAIN C :
            /\ L[i].id = C[i].id /\ L[i].text = C[i].text
            /\ L[i].st = IF C[i].id = id THEN st ELSE C[i].st
  BY <1>1, MarkedIsList
<1> HIDE DEF L, C
<1>3. Len(written) \in Nat
  BY DEF ChatShape
<1>4. ASSUME NEW i \in DOMAIN L
      PROVE  /\ AtServer(L[i]) \/ (side = "student" /\ conv = open /\ Unsent(L[i]))
             /\ L[i].st # "sent" => Unsent(C[i]) /\ C[i].st \in {"sending", "failed"}
  <2>1. CASE AtServer(C[i])
    BY <1>2, <1>3, <2>1 DEF AtServer
  <2>2. CASE side = "student" /\ conv = open /\ Unsent(C[i])
    BY <1>1, <1>2, <2>2 DEF Unsent, Entry
  <2> QED  BY <1>1, <1>2, <2>1, <2>2
<1>5. \A i \in DOMAIN L : L[i].st # "sent" => (C[i].id = id <=> L[i].text = -id)
  <2>1. \A i \in DOMAIN C : C[i].id \in Int /\ C[i].text \in Int
    BY <1>1 DEF Entry
  <2> QED  BY <1>2, <1>4, <2>1 DEF Unsent
<1>6. side = "student" => Distinct(L)
  BY <1>1, <1>2 DEF Distinct
<1> QED  BY <1>1, <1>2, <1>4, <1>5, <1>6 DEF L, C

\* L holds messages of C, revised perhaps.
EditOf(L, C) ==
    /\ L \in Seq(Entry)
    /\ Distinct(C) => Distinct(L)
    /\ \A i \in DOMAIN L : \E j \in DOMAIN C :
          L[i].id = C[j].id /\ L[i].text = C[j].text /\ L[i].st = C[j].st

LEMMA RevisedIsEdit ==
  ASSUME NEW C \in Seq(Entry), NEW id, NEW rev \in Nat
  PROVE  EditOf(Revised(C, id, rev), C)
<1>1. PICK L : L = Revised(C, id, rev)
  OBVIOUS
<1>2. /\ L \in Seq(Entry) /\ DOMAIN L = DOMAIN C
      /\ \A i \in DOMAIN C :
            L[i].id = C[i].id /\ L[i].text = C[i].text /\ L[i].st = C[i].st
  BY <1>1, RevisedIsList
<1> QED  BY <1>1, <1>2 DEF EditOf, Distinct

LEMMA WithoutIsEdit ==
  ASSUME NEW C \in Seq(Entry), NEW id
  PROVE  EditOf(Without(C, id), C)
<1> DEFINE K == {i \in DOMAIN C : C[i].id # id}
           L == Kept(C, K)
<1>1. L = Without(C, id) /\ K \in SUBSET DOMAIN C
  BY DEF Without
<1> HIDE DEF K
<1>2. /\ L \in Seq(Entry)
      /\ \A i \in DOMAIN L : \E j \in K : L[i] = C[j]
      /\ (\A i, j \in K : C[i].id = C[j].id => i = j) => Distinct(L)
  BY <1>1, WithoutIsList
<1> QED  BY <1>1, <1>2 DEF EditOf, Distinct

LEMMA EditedIsTrue ==
  ASSUME ChatShape, ListsAreTrue, NEW conv \in Conversation,
         NEW L, EditOf(L, Cached(conv))
  PROVE  /\ L \in Seq(Entry)
         /\ side = "student" => Distinct(L)
         /\ \A i \in DOMAIN L :
               /\ AtServer(L[i]) \/ (side = "student" /\ conv = open /\ Unsent(L[i]))
               /\ L[i].st # "sent" => \E j \in DOMAIN cache[open].items :
                     /\ L[i].text = cache[open].items[j].text
                     /\ L[i].st = cache[open].items[j].st
<1>1. /\ Cached(conv) \in Seq(Entry)
      /\ side = "student" => Distinct(Cached(conv))
      /\ \A i \in DOMAIN Cached(conv) :
            /\ i \in DOMAIN cache[open].items /\ Cached(conv)[i] = cache[open].items[i]
            /\ \/ AtServer(Cached(conv)[i])
               \/ side = "student" /\ conv = open /\ Unsent(Cached(conv)[i])
  BY CachedIsTrue
<1>2. PICK C \in Seq(Entry) : C = Cached(conv)
  BY <1>1
<1>3. /\ L \in Seq(Entry)
      /\ Distinct(C) => Distinct(L)
      /\ \A i \in DOMAIN L : \E j \in DOMAIN C :
            L[i].id = C[j].id /\ L[i].text = C[j].text /\ L[i].st = C[j].st
  BY <1>2 DEF EditOf
<1>4. ASSUME NEW i \in DOMAIN L
      PROVE  /\ AtServer(L[i]) \/ (side = "student" /\ conv = open /\ Unsent(L[i]))
             /\ \E j \in DOMAIN cache[open].items :
                     /\ L[i].text = cache[open].items[j].text
                     /\ L[i].st = cache[open].items[j].st
  <2>1. PICK j \in DOMAIN C : L[i].id = C[j].id /\ L[i].text = C[j].text /\ L[i].st = C[j].st
    BY <1>3
  <2>2. AtServer(L[i]) <=> AtServer(C[j])
    BY <2>1 DEF AtServer
  <2>3. Unsent(L[i]) <=> Unsent(C[j])
    BY <2>1 DEF Unsent
  <2> QED  BY <1>1, <1>2, <2>1, <2>2, <2>3
<1> QED  BY <1>1, <1>2, <1>3, <1>4

\* The server's list of a conversation, edited.
LEMMA ServerEdits ==
  ASSUME ChatShape, ListsAreTrue, NEW c \in Conversation, NEW L, EditOf(L, server[c]),
         server' = [server EXCEPT ![c] = L],
         UNCHANGED <<side, written, typed, cache, fetch>>
  PROVE  server' \in [Conversation -> Seq(Entry)] /\ ListsAreTrue'
<1>1. PICK C \in Seq(Entry) : C = server[c] /\ ServedIn(C)
  BY DEF ChatShape, ListsAreTrue
<1>2. /\ L \in Seq(Entry)
      /\ Distinct(C) => Distinct(L)
      /\ \A i \in DOMAIN L : \E j \in DOMAIN C :
            L[i].id = C[j].id /\ L[i].text = C[j].text /\ L[i].st = C[j].st
  BY <1>1 DEF EditOf
<1>3. ServedIn(L)
  BY <1>1, <1>2 DEF ServedIn, AtServer
<1>4. server' \in [Conversation -> Seq(Entry)] /\ server'[c] = L
  BY <1>2 DEF ChatShape
<1>5. ServedIn(server[c])'
  BY <1>3, <1>4 DEF ServedIn, AtServer
<1>6. ListsAreTrue'
  <2>1. \A m : (AtServer(m) => AtServer(m)') /\ (Unsent(m) => Unsent(m)')
    BY DEF AtServer, Unsent
  <2>2. \A d \in Conversation : server'[d] = server[d] \/ ServedIn(server[d])'
    <3>1. ASSUME NEW d \in Conversation, d = c PROVE ServedIn(server[d])'
      BY <1>5, <3>1 DEF ServedIn, AtServer
    <3>2. ASSUME NEW d \in Conversation, d # c PROVE server'[d] = server[d]
      BY <3>2 DEF ChatShape
    <3> QED  BY <3>1, <3>2
  <2> QED  BY <2>1, <2>2, ListsStay
<1> QED  BY <1>4, <1>6

\* The server stores a text, at the end of the list of its conversation.
LEMMA ServerStores ==
  ASSUME ChatShape, ListsAreTrue, NEW c \in Conversation, NEW t \in Int,
         server' = [server EXCEPT ![c] = Append(@, Message(Len(written) + 1, t, 0, "sent"))],
         written' = Append(written, t), UNCHANGED <<side, typed, cache, fetch>>
  PROVE  /\ server' \in [Conversation -> Seq(Entry)] /\ ListsAreTrue'
         /\ written' \in Seq(Int) /\ \A m : AtServer(m) => AtServer(m)'
<1>1. /\ written' \in Seq(Int) /\ Len(written) \in Nat
      /\ \A m : AtServer(m) => AtServer(m)'
  BY StoredStays DEF ChatShape
<1>2. Len(written') = Len(written) + 1 /\ written'[Len(written) + 1] = t
  BY DEF ChatShape
<1>3. PICK m : m = Message(Len(written) + 1, t, 0, "sent")
  OBVIOUS
<1>4. m \in Entry /\ m.id = Len(written) + 1 /\ m.text = t /\ m.st = "sent"
  BY <1>1, <1>3 DEF Message, Entry
<1>5. AtServer(m)'
  BY <1>1, <1>2, <1>4 DEF AtServer
<1>6. PICK C \in Seq(Entry) : C = server[c] /\ ServedIn(C)
  BY DEF ChatShape, ListsAreTrue
<1>7. \A i \in DOMAIN C : C[i].id # m.id
  BY <1>1, <1>4, <1>6 DEF ServedIn, AtServer
<1>8. PICK L \in Seq(Entry) :
        /\ L = Append(C, m)
        /\ \A i \in DOMAIN L : L[i] = m \/ (i \in DOMAIN C /\ L[i] = C[i])
        /\ Distinct(C) => Distinct(L)
  <2>1. /\ Append(C, m) \in Seq(Entry)
        /\ \A i \in DOMAIN Append(C, m) :
              \/ Append(C, m)[i] = m
              \/ i \in DOMAIN C /\ Append(C, m)[i] = C[i]
        /\ Distinct(C) /\ (\A i \in DOMAIN C : C[i].id # m.id) => Distinct(Append(C, m))
    BY <1>4, AppendedIsList
  <2> QED  BY <1>7, <2>1
<1>9. server' \in [Conversation -> Seq(Entry)] /\ server'[c] = L
  BY <1>3, <1>6, <1>8 DEF ChatShape
<1>10. \A i \in DOMAIN L : AtServer(L[i])'
  BY <1>1, <1>5, <1>6, <1>8 DEF ServedIn
<1>11. \A d \in Conversation : server'[d] = server[d] \/ ServedIn(server[d])'
  <2>1. ASSUME NEW d \in Conversation, d = c PROVE ServedIn(server[d])'
    <3>1. server'[d] = L
      BY <1>9, <2>1
    <3>2. side' = "student" => Distinct(L)
      BY <1>6, <1>8 DEF ServedIn
    <3> QED  BY <1>10, <3>1, <3>2 DEF ServedIn, AtServer
  <2>2. ASSUME NEW d \in Conversation, d # c PROVE server'[d] = server[d]
    BY <2>2 DEF ChatShape
  <2> QED  BY <2>1, <2>2
<1>12. \A e : Unsent(e) => Unsent(e)'
  BY DEF Unsent
<1>13. ListsAreTrue'
  BY <1>1, <1>11, <1>12, ListsStay
<1> QED  BY <1>1, <1>9, <1>13

\* A stored text is one copy more of itself.
LEMMA CopiesGrow ==
  ASSUME written \in Seq(Int), NEW t \in Int, written' = Append(written, t)
  PROVE  \A u : /\ Cardinality(Copies(u)) \in Nat
                /\ u # t => Cardinality(Copies(u)') = Cardinality(Copies(u))
                /\ u = t => Cardinality(Copies(u)') = Cardinality(Copies(u)) + 1
<1>1. /\ Len(written) \in Nat /\ DOMAIN written = 1 .. Len(written)
      /\ Len(written') = Len(written) + 1 /\ DOMAIN written' = 1 .. Len(written) + 1
      /\ \A i \in 1 .. Len(written) : written'[i] = written[i]
      /\ written'[Len(written) + 1] = t
  OBVIOUS
<1>2. ASSUME NEW u
      PROVE  /\ IsFiniteSet(Copies(u)) /\ Len(written) + 1 \notin Copies(u)
             /\ u # t => Copies(u)' = Copies(u)
             /\ u = t => Copies(u)' = Copies(u) \cup {Len(written) + 1}
  <2>1. IsFiniteSet(Copies(u))
    <3>1. Copies(u) \subseteq 1 .. Len(written) /\ IsFiniteSet(1 .. Len(written))
      BY <1>1, FS_Interval DEF Copies
    <3> QED  BY <3>1, FS_Subset
  <2>2. \A i : i \in 1 .. Len(written) + 1 <=> i \in 1 .. Len(written) \/ i = Len(written) + 1
    BY <1>1
  <2> QED  BY <1>1, <2>1, <2>2 DEF Copies
<1>3. ASSUME NEW u
      PROVE  /\ Cardinality(Copies(u)) \in Nat
             /\ u # t => Cardinality(Copies(u)') = Cardinality(Copies(u))
             /\ u = t => Cardinality(Copies(u)') = Cardinality(Copies(u)) + 1
  <2>1. /\ Cardinality(Copies(u)) \in Nat
        /\ Cardinality(Copies(u) \cup {Len(written) + 1}) = Cardinality(Copies(u)) + 1
    BY <1>2, FS_CardinalityType, FS_AddElement
  <2> QED  BY <1>2, <2>1
<1> QED  BY <1>3

\* When nothing new waits and no request is new, the texts keep their homes and nothing
\* becomes storable.
LEMMA NoTextMoves ==
  ASSUME TextsHaveOneHome, typed' = typed,
         \A c \in Conversation, t \in Int, s \in {"sending", "failed"} :
            Waits(c, t, s)' => Waits(c, t, s),
         \A r \in Posts' : \E q \in Posts :
            q.item.text = r.item.text /\ q.conv = r.conv /\ (q.at = "done" => r.at = "done")
  PROVE  /\ TextsHaveOneHome'
         /\ \A t \in Int : MayBeStored(t)' => MayBeStored(t)
<1>1. TextsHaveOneHome'
  BY DEF TextsHaveOneHome
<1>2. ASSUME NEW t \in Int, MayBeStored(t)' PROVE MayBeStored(t)
  BY <1>2 DEF MayBeStored
<1> QED  BY <1>1, <1>2

\* So a step that stores nothing keeps the counts.
LEMMA CountsStay ==
  ASSUME CopiesAreCounted, written' = written, unanswered' = unanswered,
         \A t \in Int : MayBeStored(t)' => MayBeStored(t)
  PROVE  CopiesAreCounted'
<1>1. \A t : Copies(t)' = Copies(t)
  BY DEF Copies
<1>2. \A t \in 1 .. MaxTexts : t \in Int
  BY ChatAssumption
<1> QED  BY <1>1, <1>2 DEF CopiesAreCounted

-----------------------------------------------------------------------------
(* The user's actions. *)

\* A page on which nothing was typed or read yet, whatever its channel does.
ChatUnused ==
    /\ side \in {"student", "professor"} /\ open \in Conversation
    /\ server = [c \in Conversation |-> <<>>] /\ written = <<>>
    /\ cache = [c \in Conversation |-> [conv |-> c, items |-> <<>>]]
    /\ fetch = [c \in Conversation |-> NoFetch]
    /\ requests = {}
    /\ mode \in {"starting", "listening", "polling"} /\ (barred => mode = "polling")
    /\ typed = 0 /\ others = 0 /\ chatFailures = 0 /\ unanswered = 0

LEMMA ChatStarts == ChatUnused => ChatInv
<1> SUFFICES ASSUME ChatUnused PROVE ChatInv
  OBVIOUS
<1>1. ChatShape
  BY ChatAssumption DEF ChatUnused, ChatShape, NoFetch
<1>2. ListsAreTrue
  BY DEF ChatUnused, ListsAreTrue, ServedIn, KeptUnder, Distinct, NoFetch
<1>3. RequestsAreTrue
  BY DEF ChatUnused, RequestsAreTrue, Posts
<1>4. TextsHaveOneHome
  BY DEF ChatUnused, TextsHaveOneHome, Waits
<1>5. CopiesAreCounted
  <2>1. \A t : Copies(t) = {}
    BY DEF ChatUnused, Copies
  <2>2. \A t : Cardinality(Copies(t)) = 0
    BY <2>1, FS_EmptySet
  <2> QED  BY <2>2 DEF ChatUnused, CopiesAreCounted
<1> QED  BY <1>1, <1>2, <1>3, <1>4, <1>5 DEF ChatInv

\* Sending shows the message on the student's page, under the key of its conversation.
LEMMA SendingKeeps ==
  ASSUME ChatInv, send
  PROVE  ChatInv'
<1>0. /\ ChatShape /\ ListsAreTrue /\ RequestsAreTrue /\ TextsHaveOneHome /\ CopiesAreCounted
      /\ MaxTexts \in Nat /\ typed \in 0 .. MaxTexts /\ open \in Conversation
  BY ChatAssumption DEF ChatInv, ChatShape
<1>1. PICK m, w : m = Message(-(typed + 1), typed + 1, 0, "sending") /\ w = Request("send", open, m)
  OBVIOUS
<1>2. /\ typed' = typed + 1 /\ typed < MaxTexts /\ requests' = requests \cup {w}
      /\ IF side = "student" THEN Mutate(open, Append(Shown, m)) ELSE UNCHANGED <<cache, fetch>>
      /\ side = "professor" => \A q \in requests : q.kind # "send"
      /\ UNCHANGED <<side, server, written, open, mode, barred, news, others, chatFailures,
                     unanswered>>
  BY <1>1 DEF send, channel
<1>3. /\ m \in Entry /\ m.id = -(typed + 1) /\ m.text = typed + 1 /\ m.st = "sending"
      /\ w.kind = "send" /\ w.conv = open /\ w.item = m /\ w.at = "asked" /\ w.id = 0
      /\ w \in [kind : {"send", "retry", "edit", "delete"}, conv : Conversation,
                item : Entry, at : {"asked", "done", "failed"}, id : Nat]
  BY <1>0, <1>1 DEF Request, Message, Entry
<1>4. Posts' = Posts \cup {w} /\ requests' \ Posts' = requests \ Posts
  <2>1. \A q \in requests' : q \in requests \/ q = w
    BY <1>2
  <2>2. requests' \ Posts' = requests \ Posts
    BY <1>2, <1>3 DEF Posts
  <2> QED  BY <1>2, <1>3, <2>2 DEF Posts
<1>5. side = "professor" => Posts = {}
  BY <1>0, <1>2 DEF RequestsAreTrue, Posts
<1>6. \A q \in Posts : q.item.text \in 1 .. typed
  BY <1>0 DEF RequestsAreTrue, Unsent
<1>7. /\ Shown \in Seq(Entry)
      /\ side = "student" => Distinct(Shown)
      /\ \A i \in DOMAIN Shown :
               /\ Shown[i] \in Entry
               /\ i \in DOMAIN cache[open].items /\ Shown[i] = cache[open].items[i]
               /\ AtServer(Shown[i]) \/ (side = "student" /\ Unsent(Shown[i]))
  BY <1>0, CachedIsTrue DEF Shown
<1>8. \A i \in DOMAIN Shown : Shown[i].id # m.id
  BY <1>0, <1>3, <1>7 DEF AtServer, Unsent, Entry
<1>9. PICK items \in Seq(Entry) :
        /\ items = Append(Shown, m)
        /\ side = "student" => Distinct(items)
        /\ \A i \in DOMAIN items : items[i] = m \/ (i \in DOMAIN Shown /\ items[i] = Shown[i])
  <2>1. /\ Append(Shown, m) \in Seq(Entry)
        /\ \A i \in DOMAIN Append(Shown, m) :
              \/ Append(Shown, m)[i] = m
              \/ i \in DOMAIN Shown /\ Append(Shown, m)[i] = Shown[i]
        /\ Distinct(Shown) /\ (\A i \in DOMAIN Shown : Shown[i].id # m.id) =>
              Distinct(Append(Shown, m))
    BY <1>3, <1>7, AppendedIsList
  <2> QED  BY <1>7, <1>8, <2>1
<1>10. ASSUME side = "student"
       PROVE  /\ cache' \in [Conversation -> [conv : Conversation, items : Seq(Entry)]]
              /\ fetch' \in [Conversation -> [st : {"none", "asked", "read"}, items : Seq(Entry)]]
              /\ cache'[open] = [conv |-> open, items |-> items]
              /\ \A c \in Conversation : c # open => cache'[c] = cache[c]
              /\ \A c \in Conversation : fetch'[c] = fetch[c] \/ fetch'[c].items = <<>>
  <2>1. Mutate(open, items)
    BY <1>2, <1>9, <1>10
  <2>2. ChatShape /\ open \in Conversation
    BY <1>0
  <2> QED  BY <2>1, <2>2, ListIsWritten
<1>11. side # "student" => cache' = cache /\ fetch' = fetch
  BY <1>2
<1>12. ChatShape'
  <2>1. /\ cache' \in [Conversation -> [conv : Conversation, items : Seq(Entry)]]
        /\ fetch' \in [Conversation -> [st : {"none", "asked", "read"}, items : Seq(Entry)]]
    BY <1>0, <1>10, <1>11 DEF ChatShape
  <2>2. requests' \subseteq [kind : {"send", "retry", "edit", "delete"}, conv : Conversation,
                             item : Entry, at : {"asked", "done", "failed"}, id : Nat]
    BY <1>0, <1>2, <1>3 DEF ChatShape
  <2>3. typed' \in 0 .. MaxTexts
    BY <1>0, <1>2
  <2> QED  BY <1>0, <1>2, <2>1, <2>2, <2>3 DEF ChatShape
<1>13. \A e \in Entry : (Unsent(e) => Unsent(e)') /\ (AtServer(e) => AtServer(e)')
  BY <1>0, <1>2 DEF Unsent, AtServer
<1>14. Unsent(m)'
  BY <1>0, <1>2, <1>3 DEF Unsent
<1>15. ListsAreTrue'
  <2>1. ASSUME side = "student" PROVE KeptUnder(open, cache[open])'
    <3>1. \A i \in DOMAIN items : AtServer(items[i])' \/ Unsent(items[i])'
      BY <1>7, <1>9, <1>13, <1>14
    <3> QED  BY <1>2, <1>9, <1>10, <2>1, <3>1, WrittenIsTrue
  <2>2. \A c \in Conversation : cache'[c] = cache[c] \/ KeptUnder(c, cache[c])'
    BY <1>2, <1>10, <1>11, <2>1
  <2>3. \A c \in Conversation : fetch'[c].items \in {<<>>, fetch[c].items, server[c]}
    BY <1>10, <1>11
  <2> QED  BY <1>0, <1>2, <1>13, <2>2, <2>3, ListsStay
<1>16. RequestsAreTrue'
  <2>1. \A r \in requests \ Posts : r.item \in Entry
    BY <1>0 DEF ChatShape
  <2>2. \A r \in requests' \ Posts' : AtServer(r.item)'
    BY <1>0, <1>4, <1>13, <2>1 DEF RequestsAreTrue
  <2>3. ASSUME NEW r \in Posts'
        PROVE  /\ Unsent(r.item)'
               /\ r.at = "done" => r.id \in 1 .. Len(written') /\ written'[r.id] = r.item.text
               /\ side' = "professor" => r.kind = "send" /\ r.item.text = typed'
    <3>1. CASE r = w
      BY <1>2, <1>3, <1>14, <3>1 DEF Unsent
    <3>2. CASE r \in Posts
      <4>1. r.item \in Entry
        BY <1>0, <3>2 DEF ChatShape, Posts
      <4> QED  BY <1>0, <1>2, <1>5, <1>13, <3>2, <4>1 DEF RequestsAreTrue
    <3> QED  BY <1>4, <3>1, <3>2
  <2>4. \A r, q \in Posts' : r.item.text = q.item.text => r = q
    BY <1>0, <1>3, <1>4, <1>6 DEF RequestsAreTrue
  <2> QED  BY <2>2, <2>3, <2>4 DEF RequestsAreTrue
<1>17. \A c \in Conversation, t \in Int, s \in {"sending", "failed"} :
         /\ Waits(c, t, s) => t \in 1 .. typed
         /\ Waits(c, t, s)' => Waits(c, t, s) \/ (c = open /\ t = typed + 1 /\ s = "sending")
  <2>1. ASSUME NEW c \in Conversation, NEW i \in DOMAIN cache[c].items,
               cache[c].items[i].st # "sent"
        PROVE  cache[c].items[i].text \in 1 .. typed
    BY <1>0, <2>1 DEF ListsAreTrue, KeptUnder, AtServer, Unsent
  <2>2. ASSUME NEW t \in Int, NEW s \in {"sending", "failed"}, Waits(open, t, s)', side = "student"
        PROVE  Waits(open, t, s) \/ (t = typed + 1 /\ s = "sending")
    <3>1. PICK i \in DOMAIN items : items[i].text = t /\ items[i].st = s
      BY <1>2, <1>10, <2>2 DEF Waits
    <3> QED  BY <1>3, <1>7, <1>9, <3>1 DEF Waits
  <2>3. ASSUME NEW c \in Conversation, NEW t, NEW s, Waits(c, t, s)', c # open \/ side # "student"
        PROVE  Waits(c, t, s)
    <3>1. cache'[c] = cache[c]
      BY <1>10, <1>11, <2>3
    <3> QED  BY <2>3, <3>1 DEF Waits
  <2>4. \A c \in Conversation, t \in Int, s \in {"sending", "failed"} :
          Waits(c, t, s) => t \in 1 .. typed
    BY <2>1 DEF Waits
  <2>5. ASSUME NEW c \in Conversation, NEW t \in Int, NEW s \in {"sending", "failed"},
               Waits(c, t, s)'
        PROVE  Waits(c, t, s) \/ (c = open /\ t = typed + 1 /\ s = "sending")
    <3>1. CASE c = open /\ side = "student"
      <4>1. Waits(open, t, s)'
        BY <1>2, <2>5, <3>1 DEF Waits
      <4> QED  BY <2>2, <3>1, <4>1
    <3>2. CASE ~(c = open /\ side = "student")
      BY <2>3, <2>5, <3>2
    <3> QED  BY <3>1, <3>2
  <2> QED  BY <2>4, <2>5
<1>18. TextsHaveOneHome'
  <2>1. \A q \in Posts : q.item.text # typed + 1
    BY <1>0, <1>6
  <2>2. \A c \in Conversation, s \in {"sending", "failed"} : ~Waits(c, typed + 1, s)
    BY <1>0, <1>17
  <2> QED  BY <1>0, <1>3, <1>4, <1>17, <2>1, <2>2 DEF TextsHaveOneHome
<1>19. \A t \in 1 .. MaxTexts : MayBeStored(t)' => MayBeStored(t)
  <2>1. \A t \in 1 .. MaxTexts : t \in Int
    BY <1>0
  <2> QED  BY <1>0, <1>2, <1>3, <1>4, <1>17, <2>1 DEF MayBeStored
<1>20. CopiesAreCounted'
  BY <1>0, <1>2, <1>19 DEF CopiesAreCounted, Copies
<1> QED  BY <1>12, <1>15, <1>16, <1>18, <1>20 DEF ChatInv

\* A message that is sent again was marked as failed, in the list of its conversation, and
\* is not any more.
LEMMA RetryingKeeps ==
  ASSUME ChatInv, retryFailedMessage
  PROVE  ChatInv'
<1>0. /\ ChatShape /\ ListsAreTrue /\ RequestsAreTrue /\ TextsHaveOneHome /\ CopiesAreCounted
      /\ open \in Conversation
  BY DEF ChatInv, ChatShape
<1>1. PICK i \in DOMAIN Shown :
        /\ Shown[i].st = "failed"
        /\ \A r \in requests : r.item.id # Shown[i].id
        /\ requests' = requests \cup {Request("retry", open, Shown[i])}
        /\ Mutate(open, Marked(Shown, Shown[i].id, "sending"))
  BY DEF retryFailedMessage
<1>2. UNCHANGED <<side, server, written, open, mode, barred, news, typed, others, chatFailures,
                  unanswered>>
  BY DEF retryFailedMessage, channel, bounds
<1>3. PICK m, w : m = Shown[i] /\ w = Request("retry", open, m)
  OBVIOUS
<1>4. /\ m \in Entry /\ Unsent(m) /\ m.st = "failed" /\ side = "student"
      /\ m.id \in Int /\ m.id < 0 /\ m.text \in Int /\ m.id = -m.text
      /\ Waits(open, m.text, "failed")
  <2>1. /\ m \in Entry /\ (AtServer(m) \/ (side = "student" /\ Unsent(m)))
        /\ i \in DOMAIN cache[open].items /\ m = cache[open].items[i]
    BY <1>0, <1>1, <1>3, CachedIsTrue DEF Shown
  <2>2. m.st = "failed"
    BY <1>1, <1>3
  <2>3. Unsent(m) /\ side = "student"
    BY <2>1, <2>2 DEF AtServer
  <2>4. Waits(open, m.text, "failed")
    BY <2>1, <2>2 DEF Waits
  <2>5. typed \in Nat
    BY <1>0, ChatAssumption DEF ChatShape
  <2> QED  BY <2>1, <2>2, <2>3, <2>4, <2>5 DEF Unsent, Entry
<1>5. /\ w.kind = "retry" /\ w.conv = open /\ w.item = m /\ w.at = "asked" /\ w.id = 0
      /\ w \in [kind : {"send", "retry", "edit", "delete"}, conv : Conversation,
                item : Entry, at : {"asked", "done", "failed"}, id : Nat]
  BY <1>0, <1>3, <1>4 DEF Request
<1>6. PICK items : items = Marked(Shown, m.id, "sending")
  OBVIOUS
<1>7. /\ items \in Seq(Entry) /\ Mutate(open, items)
      /\ side = "student" => Distinct(items)
  BY <1>0, <1>1, <1>3, <1>4, <1>6, MarkedIsTrue DEF Shown
<1>8. \A j \in DOMAIN items :
        /\ AtServer(items[j]) \/ (side = "student" /\ Unsent(items[j]))
        /\ items[j].st # "sent" =>
              /\ j \in DOMAIN cache[open].items
              /\ cache[open].items[j].text = items[j].text
              /\ cache[open].items[j].st \in {"sending", "failed"}
              /\ items[j].st = IF items[j].text = m.text THEN "sending"
                               ELSE cache[open].items[j].st
  <2>1. -m.id = m.text
    BY <1>4
  <2> QED  BY <1>0, <1>4, <1>6, <2>1, MarkedIsTrue DEF Shown
<1>9. /\ cache' \in [Conversation -> [conv : Conversation, items : Seq(Entry)]]
      /\ fetch' \in [Conversation -> [st : {"none", "asked", "read"}, items : Seq(Entry)]]
      /\ ListsAreTrue'
  BY <1>0, <1>2, <1>7, <1>8, ListIsRewritten
<1>10. /\ cache'[open] = [conv |-> open, items |-> items]
       /\ \A c \in Conversation : c # open => cache'[c] = cache[c]
  BY <1>0, <1>7, ListIsWritten
<1>11. ChatShape'
  BY <1>0, <1>1, <1>2, <1>3, <1>5, <1>9 DEF ChatShape
<1>12. Posts' = Posts \cup {w} /\ requests' \ Posts' = requests \ Posts
  <2>1. requests' = requests \cup {w}
    BY <1>1, <1>3
  <2> QED  BY <1>5, <2>1 DEF Posts
<1>13. \A q \in Posts : q.item.text # m.text
  <2>1. \A q \in Posts : q.item.id = -q.item.text /\ q.item.id # m.id
    BY <1>0, <1>1, <1>3 DEF RequestsAreTrue, Unsent, Posts
  <2> QED  BY <1>4, <2>1
<1>14. \A e : (AtServer(e) => AtServer(e)') /\ (Unsent(e) => Unsent(e)')
  BY <1>2 DEF AtServer, Unsent
<1>15. RequestsAreTrue'
  <2>1. \A r \in requests' \ Posts' : AtServer(r.item)'
    BY <1>0, <1>12, <1>14 DEF RequestsAreTrue
  <2>2. ASSUME NEW r \in Posts'
        PROVE  /\ Unsent(r.item)'
               /\ r.at = "done" => r.id \in 1 .. Len(written') /\ written'[r.id] = r.item.text
               /\ side' = "professor" => r.kind = "send" /\ r.item.text = typed'
    <3>1. CASE r = w
      BY <1>2, <1>4, <1>5, <1>14, <3>1
    <3>2. CASE r \in Posts
      BY <1>0, <1>2, <1>14, <3>2 DEF RequestsAreTrue
    <3> QED  BY <1>12, <3>1, <3>2
  <2>3. \A r, q \in Posts' : r.item.text = q.item.text => r = q
    BY <1>0, <1>5, <1>12, <1>13 DEF RequestsAreTrue
  <2> QED  BY <2>1, <2>2, <2>3 DEF RequestsAreTrue
<1>16. ASSUME NEW c \in Conversation, NEW t \in Int, NEW s \in {"sending", "failed"},
              Waits(c, t, s)'
       PROVE  /\ t # m.text => Waits(c, t, s)
              /\ t = m.text => c = open /\ s = "sending"
  <2>1. CASE c = open
    <3>1. PICK j \in DOMAIN items : items[j].text = t /\ items[j].st = s
      BY <1>2, <1>10, <1>16, <2>1 DEF Waits
    <3> QED  BY <1>8, <2>1, <3>1 DEF Waits
  <2>2. CASE c # open
    <3>1. Waits(c, t, s)
      BY <1>10, <1>16, <2>2 DEF Waits
    <3>2. t # m.text
      BY <1>0, <1>4, <2>2, <3>1 DEF TextsHaveOneHome
    <3> QED  BY <3>1, <3>2
  <2> QED  BY <2>1, <2>2
<1>17. TextsHaveOneHome'
  BY <1>0, <1>5, <1>12, <1>13, <1>16 DEF TextsHaveOneHome
<1>18. ASSUME NEW t \in Int, MayBeStored(t)' PROVE MayBeStored(t)
  <2>1. CASE t = m.text
    BY <1>0, <1>4, <2>1 DEF MayBeStored
  <2>2. CASE t # m.text
    BY <1>2, <1>5, <1>12, <1>16, <1>18, <2>2 DEF MayBeStored
  <2> QED  BY <2>1, <2>2
<1>19. CopiesAreCounted'
  BY <1>0, <1>2, <1>18, CountsStay
<1> QED  BY <1>9, <1>11, <1>15, <1>17, <1>19 DEF ChatInv

\* A change of the open list in which nothing new waits and no request stores a text.
LEMMA EditKeeps ==
  ASSUME ChatInv, NEW items \in Seq(Entry), NEW conv \in Conversation, NEW Q,
         (cache' = cache /\ fetch' = fetch) \/ Mutate(conv, items),
         UNCHANGED <<side, server, written, open, mode, barred, typed, others, chatFailures,
                     unanswered>>,
         side = "student" => Distinct(items),
         \A i \in DOMAIN items :
            /\ AtServer(items[i]) \/ (side = "student" /\ conv = open /\ Unsent(items[i]))
            /\ items[i].st # "sent" => \E j \in DOMAIN cache[open].items :
                  /\ items[i].text = cache[open].items[j].text
                  /\ items[i].st = cache[open].items[j].st,
         requests' \subseteq requests \cup Q,
         Q \subseteq [kind : {"edit", "delete"}, conv : Conversation, item : Entry,
                      at : {"asked", "done", "failed"}, id : Nat],
         \A q \in Q : AtServer(q.item)
  PROVE  ChatInv'
<1>0. ChatShape /\ ListsAreTrue /\ RequestsAreTrue /\ TextsHaveOneHome /\ CopiesAreCounted
  BY DEF ChatInv
<1>1. /\ cache' \in [Conversation -> [conv : Conversation, items : Seq(Entry)]]
      /\ fetch' \in [Conversation -> [st : {"none", "asked", "read"}, items : Seq(Entry)]]
      /\ ListsAreTrue'
  <2>1. CASE Mutate(conv, items)
    BY <1>0, <2>1, ListIsRewritten
  <2>2. CASE cache' = cache /\ fetch' = fetch
    BY <1>0, <2>2, ListsUnchanged DEF ChatShape
  <2> QED  BY <2>1, <2>2
<1>2. requests' \subseteq [kind : {"send", "retry", "edit", "delete"}, conv : Conversation,
                           item : Entry, at : {"asked", "done", "failed"}, id : Nat]
  <2>1. \A q \in Q : q \in [kind : {"send", "retry", "edit", "delete"}, conv : Conversation,
                           item : Entry, at : {"asked", "done", "failed"}, id : Nat]
    OBVIOUS
  <2> QED  BY <1>0, <2>1 DEF ChatShape
<1>3. ChatShape'
  BY <1>0, <1>1, <1>2 DEF ChatShape
<1>4. Posts' \subseteq Posts /\ requests' \ Posts' \subseteq (requests \ Posts) \cup Q
  <2>1. \A q \in Q : q.kind \in {"edit", "delete"}
    OBVIOUS
  <2> QED  BY <2>1 DEF Posts
<1>5. \A m : (AtServer(m) => AtServer(m)') /\ (Unsent(m) => Unsent(m)')
  BY DEF AtServer, Unsent
<1>6. RequestsAreTrue'
  <2>1. \A r \in requests' \ Posts' : AtServer(r.item)'
    BY <1>0, <1>4, <1>5 DEF RequestsAreTrue
  <2>2. \A r \in Posts' :
          /\ Unsent(r.item)'
          /\ r.at = "done" => r.id \in 1 .. Len(written') /\ written'[r.id] = r.item.text
          /\ side' = "professor" => r.kind = "send" /\ r.item.text = typed'
    BY <1>0, <1>4, <1>5 DEF RequestsAreTrue
  <2>3. \A r, q \in Posts' : r.item.text = q.item.text => r = q
    BY <1>0, <1>4 DEF RequestsAreTrue
  <2> QED  BY <2>1, <2>2, <2>3 DEF RequestsAreTrue
<1>7. \A c \in Conversation, t \in Int, s \in {"sending", "failed"} :
        Waits(c, t, s)' => Waits(c, t, s)
  <2>1. CASE Mutate(conv, items)
    BY <1>0, <2>1, NothingNewWaits
  <2>2. CASE cache' = cache /\ fetch' = fetch
    BY <2>2 DEF Waits
  <2> QED  BY <2>1, <2>2
<1>8. TextsHaveOneHome' /\ \A t \in Int : MayBeStored(t)' => MayBeStored(t)
  BY <1>0, <1>4, <1>7, NoTextMoves
<1>9. CopiesAreCounted'
  BY <1>0, <1>8, CountsStay
<1> QED  BY <1>1, <1>3, <1>6, <1>8, <1>9 DEF ChatInv

\* Reading: what a refresh brings was the server's list, and replaces the whole list kept
\* under its key; a request may end.
LEMMA ReadingKeeps ==
  ASSUME ChatInv, UNCHANGED <<side, server, written, typed, others, unanswered>>,
         open' \in Conversation, requests' \subseteq requests,
         mode' \in {"starting", "listening", "polling"}, barred' => mode' = "polling",
         chatFailures' \in chatFailures .. MaxChatFailures,
         fetch' \in [Conversation -> [st : {"none", "asked", "read"}, items : Seq(Entry)]],
         \A c \in Conversation : fetch'[c].items \in {<<>>, fetch[c].items, server[c]},
         cache' \in [Conversation -> [conv : Conversation, items : Seq(Entry)]],
         \A c \in Conversation : cache'[c] = cache[c] \/ cache'[c].items = fetch[c].items
  PROVE  ChatInv'
<1>0. /\ ChatShape /\ ListsAreTrue /\ RequestsAreTrue /\ TextsHaveOneHome /\ CopiesAreCounted
      /\ MaxChatFailures \in Nat
  BY ChatAssumption DEF ChatInv
<1>1. ChatShape'
  <2>1. unanswered \in 0 .. chatFailures /\ chatFailures \in 0 .. MaxChatFailures
    BY <1>0 DEF ChatShape
  <2>2. unanswered' \in 0 .. chatFailures' /\ chatFailures' \in 0 .. MaxChatFailures
    BY <1>0, <2>1
  <2>3. requests' \subseteq [kind : {"send", "retry", "edit", "delete"}, conv : Conversation,
                             item : Entry, at : {"asked", "done", "failed"}, id : Nat]
    BY <1>0 DEF ChatShape
  <2> QED  BY <1>0, <2>2, <2>3 DEF ChatShape
<1>2. \A m : (AtServer(m) => AtServer(m)') /\ (Unsent(m) => Unsent(m)')
  BY DEF AtServer, Unsent
<1>3. ListsAreTrue'
  BY <1>0, <1>2, ListsStay
<1>4. Posts' \subseteq Posts /\ requests' \ Posts' \subseteq requests \ Posts
  BY DEF Posts
<1>5. RequestsAreTrue'
  <2>1. \A r \in requests' \ Posts' : AtServer(r.item)'
    BY <1>0, <1>2, <1>4 DEF RequestsAreTrue
  <2>2. \A r \in Posts' :
          /\ Unsent(r.item)'
          /\ r.at = "done" => r.id \in 1 .. Len(written') /\ written'[r.id] = r.item.text
          /\ side' = "professor" => r.kind = "send" /\ r.item.text = typed'
    BY <1>0, <1>2, <1>4 DEF RequestsAreTrue
  <2>3. \A r, q \in Posts' : r.item.text = q.item.text => r = q
    BY <1>0, <1>4 DEF RequestsAreTrue
  <2> QED  BY <2>1, <2>2, <2>3 DEF RequestsAreTrue
<1>6. \A c \in Conversation, t \in Int, s \in {"sending", "failed"} :
        Waits(c, t, s)' => Waits(c, t, s)
  <2>1. ASSUME NEW c \in Conversation, NEW t \in Int, NEW s \in {"sending", "failed"},
               Waits(c, t, s)'
        PROVE  Waits(c, t, s)
    <3>1. \A i \in DOMAIN fetch[c].items : fetch[c].items[i].st = "sent"
      BY <1>0 DEF ListsAreTrue, ServedIn, AtServer
    <3> QED  BY <2>1, <3>1 DEF Waits
  <2> QED  BY <2>1
<1>7. TextsHaveOneHome' /\ \A t \in Int : MayBeStored(t)' => MayBeStored(t)
  BY <1>0, <1>4, <1>6, NoTextMoves
<1>8. CopiesAreCounted'
  BY <1>0, <1>7, CountsStay
<1> QED  BY <1>1, <1>3, <1>5, <1>7, <1>8 DEF ChatInv

LEMMA RefreshingKeeps ==
  ASSUME ChatInv, fetch' = Refreshing
  PROVE  /\ fetch' \in [Conversation -> [st : {"none", "asked", "read"}, items : Seq(Entry)]]
         /\ \A c \in Conversation : fetch'[c].items \in {<<>>, fetch[c].items, server[c]}
  BY DEF ChatInv, ChatShape, Refreshing

LEMMA ChannelKeeps ==
  ASSUME ChatInv,
         \/ FirstSnapshot \/ EventDelivered \/ ListenFails \/ Poll
         \/ \E c \in Conversation : FetchServed(c) \/ FetchApplied(c) \/ FetchFails(c)
                                    \/ selectThread(c)
  PROVE  ChatInv'
<1>0. ChatShape /\ MaxChatFailures \in Nat /\ chatFailures \in 0 .. MaxChatFailures
  BY ChatAssumption DEF ChatInv, ChatShape
<1>1. /\ mode \in {"starting", "listening", "polling"} /\ (barred => mode = "polling")
      /\ chatFailures \in chatFailures .. MaxChatFailures /\ open \in Conversation
      /\ chatFailures < MaxChatFailures => chatFailures + 1 \in chatFailures .. MaxChatFailures
  BY <1>0 DEF ChatShape
<1>2. CASE FirstSnapshot
  <2>1. ~barred
    BY <1>1, <1>2 DEF FirstSnapshot
  <2> QED  BY <1>0, <1>1, <1>2, <2>1, RefreshingKeeps, ReadingKeeps
           DEF FirstSnapshot, bounds, ChatShape
<1>3. CASE EventDelivered
  BY <1>0, <1>1, <1>3, RefreshingKeeps, ReadingKeeps DEF EventDelivered, bounds, ChatShape
<1>4. CASE ListenFails
  BY <1>0, <1>1, <1>4, RefreshingKeeps, ReadingKeeps DEF ListenFails, ChatShape
<1>5. CASE Poll
  BY <1>0, <1>1, <1>5, RefreshingKeeps, ReadingKeeps DEF Poll, bounds, channel, ChatShape
<1>6. ASSUME NEW c \in Conversation, FetchServed(c) PROVE ChatInv'
  <2>1. /\ fetch' \in [Conversation -> [st : {"none", "asked", "read"}, items : Seq(Entry)]]
        /\ \A d \in Conversation : fetch'[d].items \in {<<>>, fetch[d].items, server[d]}
    BY <1>0, <1>6 DEF FetchServed, ChatShape
  <2> QED  BY <1>0, <1>1, <1>6, <2>1, ReadingKeeps DEF FetchServed, bounds, channel, ChatShape
<1>7. ASSUME NEW c \in Conversation, FetchApplied(c) PROVE ChatInv'
  <2>1. /\ fetch' \in [Conversation -> [st : {"none", "asked", "read"}, items : Seq(Entry)]]
        /\ \A d \in Conversation : fetch'[d].items \in {<<>>, fetch[d].items, server[d]}
    BY <1>0, <1>7 DEF FetchApplied, ChatShape, NoFetch
  <2>2. /\ cache' \in [Conversation -> [conv : Conversation, items : Seq(Entry)]]
        /\ \A d \in Conversation : cache'[d] = cache[d] \/ cache'[d].items = fetch[d].items
    BY <1>0, <1>7 DEF FetchApplied, ChatShape
  <2> QED  BY <1>0, <1>1, <1>7, <2>1, <2>2, ReadingKeeps
           DEF FetchApplied, bounds, channel, ChatShape
<1>8. ASSUME NEW c \in Conversation, FetchFails(c) PROVE ChatInv'
  <2>1. /\ fetch' \in [Conversation -> [st : {"none", "asked", "read"}, items : Seq(Entry)]]
        /\ \A d \in Conversation : fetch'[d].items \in {<<>>, fetch[d].items, server[d]}
    BY <1>0, <1>8, RefreshingKeeps DEF FetchFails, ChatShape, NoFetch
  <2> QED  BY <1>0, <1>1, <1>8, <2>1, ReadingKeeps DEF FetchFails, channel, ChatShape
<1>9. ASSUME NEW c \in Conversation, selectThread(c) PROVE ChatInv'
  <2>1. /\ fetch' \in [Conversation -> [st : {"none", "asked", "read"}, items : Seq(Entry)]]
        /\ \A d \in Conversation : fetch'[d].items \in {<<>>, fetch[d].items, server[d]}
    BY <1>0, <1>9 DEF selectThread, ChatShape
  <2> QED  BY <1>0, <1>1, <1>9, <2>1, ReadingKeeps DEF selectThread, ChatShape
<1> QED  BY <1>2, <1>3, <1>4, <1>5, <1>6, <1>7, <1>8, <1>9

\* Removing a message that could not be sent, editing one and deleting one.
LEMMA EditingKeeps ==
  ASSUME ChatInv, removeFailedMessage \/ saveMessageEdit \/ removeMessage
  PROVE  ChatInv'
<1>0. /\ ChatShape /\ ListsAreTrue /\ open \in Conversation /\ <<>> \in Seq(Entry)
      /\ Distinct(<<>>) /\ DOMAIN (<<>>) = {}
  BY DEF ChatInv, ChatShape, Distinct
<1>1. /\ Shown \in Seq(Entry)
      /\ \A i \in DOMAIN Shown : Shown[i] \in Entry
                                /\ (AtServer(Shown[i]) \/ (side = "student" /\ Unsent(Shown[i])))
  BY <1>0, CachedIsTrue DEF Shown
<1>2. CASE removeFailedMessage
  <2>1. PICK i \in DOMAIN Shown : Mutate(open, Without(Shown, Shown[i].id))
    BY <1>2 DEF removeFailedMessage
  <2>2. PICK L : L = Without(Shown, Shown[i].id)
    OBVIOUS
  <2>3. EditOf(L, Cached(open))
    BY <1>1, <2>2, WithoutIsEdit DEF Shown
  <2>4. /\ L \in Seq(Entry)
        /\ side = "student" => Distinct(L)
        /\ \A j \in DOMAIN L :
              /\ AtServer(L[j]) \/ (side = "student" /\ open = open /\ Unsent(L[j]))
              /\ L[j].st # "sent" => \E k \in DOMAIN cache[open].items :
                    /\ L[j].text = cache[open].items[k].text
                    /\ L[j].st = cache[open].items[k].st
    BY <1>0, <2>3, EditedIsTrue
  <2>5. requests' \subseteq requests \cup {}
    BY <1>2 DEF removeFailedMessage
  <2> QED  BY <1>0, <1>2, <2>1, <2>2, <2>4, <2>5, EditKeeps
           DEF removeFailedMessage, channel, bounds
<1>3. ASSUME NEW i \in DOMAIN Shown, NEW kind \in {"edit", "delete"}, Shown[i].st = "sent",
             requests' = requests \cup {Request(kind, open, Shown[i])},
             NEW L, EditOf(L, Shown),
             (cache' = cache /\ fetch' = fetch) \/ Mutate(open, L),
             UNCHANGED <<side, server, written, open, mode, barred, typed, others, chatFailures,
                         unanswered>>
      PROVE  ChatInv'
  <2>1. PICK q, Q : q = Request(kind, open, Shown[i]) /\ Q = {q}
    OBVIOUS
  <2>2. /\ Q \subseteq [kind : {"edit", "delete"}, conv : Conversation, item : Entry,
                        at : {"asked", "done", "failed"}, id : Nat]
        /\ q.item = Shown[i] /\ AtServer(Shown[i])
    BY <1>0, <1>1, <1>3, <2>1 DEF Request, Unsent
  <2>3. /\ L \in Seq(Entry)
        /\ side = "student" => Distinct(L)
        /\ \A j \in DOMAIN L :
              /\ AtServer(L[j]) \/ (side = "student" /\ open = open /\ Unsent(L[j]))
              /\ L[j].st # "sent" => \E k \in DOMAIN cache[open].items :
                    /\ L[j].text = cache[open].items[k].text
                    /\ L[j].st = cache[open].items[k].st
    BY <1>0, <1>3, EditedIsTrue DEF Shown
  <2>4. requests' \subseteq requests \cup Q /\ \A r \in Q : AtServer(r.item)
    BY <1>3, <2>1, <2>2
  <2> QED  BY <1>0, <1>3, <2>2, <2>3, <2>4, EditKeeps
<1>4. CASE saveMessageEdit
  <2>1. PICK i \in DOMAIN Shown :
          /\ Shown[i].st = "sent"
          /\ requests' = requests \cup {Request("edit", open, Shown[i])}
          /\ IF side = "student" THEN Mutate(open, Revised(Shown, Shown[i].id, 1))
             ELSE UNCHANGED <<cache, fetch>>
    BY <1>4 DEF saveMessageEdit
  <2>2. EditOf(Revised(Shown, Shown[i].id, 1), Shown)
    BY <1>1, RevisedIsEdit
  <2>3. UNCHANGED <<side, server, written, open, mode, barred, typed, others, chatFailures,
                    unanswered>>
    BY <1>4 DEF saveMessageEdit, channel
  <2> QED  BY <1>3, <2>1, <2>2, <2>3
<1>5. CASE removeMessage
  <2>1. PICK i \in DOMAIN Shown :
          /\ Shown[i].st = "sent"
          /\ requests' = requests \cup {Request("delete", open, Shown[i])}
          /\ Mutate(open, Without(Shown, Shown[i].id))
    BY <1>5 DEF removeMessage
  <2>2. EditOf(Without(Shown, Shown[i].id), Shown)
    BY <1>1, WithoutIsEdit
  <2>3. UNCHANGED <<side, server, written, open, mode, barred, typed, others, chatFailures,
                    unanswered>>
    BY <1>5 DEF removeMessage, channel
  <2> QED  BY <1>3, <2>1, <2>2, <2>3
<1> QED  BY <1>2, <1>4, <1>5

-----------------------------------------------------------------------------
(* The server's actions and the answers. *)

\* A request under way moves on.
LEMMA RequestTurns ==
  ASSUME ChatShape, RequestsAreTrue, UNCHANGED <<side, typed>>,
         written' \in Seq(Int), \A m : AtServer(m) => AtServer(m)',
         \A i \in 1 .. Len(written) : i \in 1 .. Len(written') /\ written'[i] = written[i],
         NEW r \in requests, NEW at \in {"done", "failed"}, NEW id \in Nat,
         r.at = "asked", Turn(r, at, id),
         at = "done" /\ r \in Posts => id \in 1 .. Len(written') /\ written'[id] = r.item.text
  PROVE  /\ requests' \subseteq [kind : {"send", "retry", "edit", "delete"},
                                 conv : Conversation, item : Entry,
                                 at : {"asked", "done", "failed"}, id : Nat]
         /\ RequestsAreTrue'
         /\ \A q \in Posts' : \E p \in Posts :
               /\ p.item.text = q.item.text /\ p.conv = q.conv
               /\ (p.at = "done" => q.at = "done")
         /\ r \in Posts => \A q \in Posts' : q.item.text = r.item.text => q.at = at
<1> DEFINE RR == [kind : {"send", "retry", "edit", "delete"}, conv : Conversation,
                  item : Entry, at : {"asked", "done", "failed"}, id : Nat]
<1>1. PICK q : q = [r EXCEPT !.at = at, !.id = id]
  OBVIOUS
<1>2. r \in RR /\ requests \subseteq RR
  BY DEF ChatShape
<1>3. /\ q \in RR /\ q.kind = r.kind /\ q.conv = r.conv /\ q.item = r.item
      /\ q.at = at /\ q.id = id
  BY <1>1, <1>2
<1> HIDE DEF RR
<1>4. requests' = (requests \ {r}) \cup {q}
  BY <1>1 DEF Turn
<1>5. requests' \subseteq RR
  BY <1>2, <1>3, <1>4
<1>6. /\ r \in Posts <=> r.kind \in {"send", "retry"}
      /\ \A p \in Posts' : p \in Posts \ {r} \/ (p = q /\ r \in Posts)
      /\ \A p \in requests' \ Posts' : p \in requests \ Posts \/ (p = q /\ r \notin Posts)
  BY <1>3, <1>4 DEF Posts
<1>7. \A m : Unsent(m) => Unsent(m)'
  BY DEF Unsent
<1>8. \A p \in requests' \ Posts' : AtServer(p.item)'
  BY <1>3, <1>6 DEF RequestsAreTrue
<1>9. ASSUME NEW p \in Posts'
      PROVE  /\ Unsent(p.item)'
             /\ p.at = "done" => p.id \in 1 .. Len(written') /\ written'[p.id] = p.item.text
             /\ side' = "professor" => p.kind = "send" /\ p.item.text = typed'
  <2>1. CASE p \in Posts
    BY <1>7, <2>1 DEF RequestsAreTrue
  <2>2. CASE p = q /\ r \in Posts
    BY <1>3, <1>7, <2>2 DEF RequestsAreTrue
  <2> QED  BY <1>6, <2>1, <2>2
<1>10. \A p, o \in Posts' : p.item.text = o.item.text => p = o
  BY <1>3, <1>6 DEF RequestsAreTrue
<1>11. RequestsAreTrue'
  BY <1>8, <1>9, <1>10 DEF RequestsAreTrue
<1>12. \A o \in Posts' : \E p \in Posts :
         p.item.text = o.item.text /\ p.conv = o.conv /\ (p.at = "done" => o.at = "done")
  BY <1>3, <1>6
<1>13. r \in Posts => \A o \in Posts' : o.item.text = r.item.text => o.at = at
  BY <1>3, <1>6 DEF RequestsAreTrue
<1> QED  BY <1>5, <1>11, <1>12, <1>13 DEF RR

\* The server carries a request out: a text is one copy more, once, and its request
\* is over, or has lost an answer.
LEMMA StoringKeeps ==
  ASSUME ChatInv, NEW r \in requests, NEW at \in {"done", "failed"}, r.at = "asked",
         Found(r), Stored(r), Turn(r, at, IF at = "done" THEN Len(written') ELSE 0),
         UNCHANGED <<side, open, cache, fetch, mode, barred, typed, others>>,
         chatFailures' \in chatFailures .. MaxChatFailures,
         unanswered' = unanswered
            + (IF at = "failed" /\ r.kind \in {"send", "retry"} THEN 1 ELSE 0),
         at = "failed" => chatFailures' = chatFailures + 1
  PROVE  ChatInv'
<1>0. /\ ChatShape /\ ListsAreTrue /\ RequestsAreTrue /\ TextsHaveOneHome /\ CopiesAreCounted
      /\ MaxChatFailures \in Nat /\ written \in Seq(Int) /\ Len(written) \in Nat
      /\ r.conv \in Conversation /\ r.item \in Entry /\ r.item.text \in Int
      /\ r.kind \in {"send", "retry", "edit", "delete"}
  <2>1. /\ ChatShape /\ ListsAreTrue /\ RequestsAreTrue /\ TextsHaveOneHome /\ CopiesAreCounted
        /\ MaxChatFailures \in Nat
    BY ChatAssumption DEF ChatInv
  <2>2. written \in Seq(Int) /\ Len(written) \in Nat
    BY <2>1 DEF ChatShape
  <2>3. /\ r.conv \in Conversation /\ r.item \in Entry
        /\ r.kind \in {"send", "retry", "edit", "delete"}
    BY <2>1 DEF ChatShape
  <2>4. r.item.text \in Int
    BY <2>3 DEF Entry
  <2> QED  BY <2>1, <2>2, <2>3, <2>4
<1>1. /\ unanswered' \in 0 .. chatFailures' /\ chatFailures' \in 0 .. MaxChatFailures
      /\ unanswered \in Nat /\ unanswered' \in Nat /\ unanswered' >= unanswered
  <2>1. unanswered \in 0 .. chatFailures /\ chatFailures \in 0 .. MaxChatFailures
    BY <1>0 DEF ChatShape
  <2>2. CASE unanswered' = unanswered
    BY <1>0, <2>1, <2>2
  <2>3. CASE unanswered' = unanswered + 1 /\ chatFailures' = chatFailures + 1
    BY <1>0, <2>1, <2>3
  <2> QED  BY <2>1, <2>2, <2>3
<1>2. /\ server' \in [Conversation -> Seq(Entry)] /\ ListsAreTrue'
      /\ written' \in Seq(Int)
      /\ IF r \in Posts THEN written' = Append(written, r.item.text) ELSE written' = written
  <2>1. CASE r.kind \in {"send", "retry"}
    <3>1. /\ server' = [server EXCEPT ![r.conv] =
                           Append(@, Message(Len(written) + 1, r.item.text, 0, "sent"))]
          /\ written' = Append(written, r.item.text)
      BY <2>1 DEF Stored
    <3> QED  BY <1>0, <2>1, <3>1, ServerStores DEF Posts
  <2>2. CASE r.kind \notin {"send", "retry"}
    <3>1. PICK L : /\ L \in {Revised(server[r.conv], r.item.id, 1), Without(server[r.conv], r.item.id)}
                   /\ server' = [server EXCEPT ![r.conv] = L]
                   /\ written' = written
      BY <1>0, <2>2 DEF Stored
    <3>2. server[r.conv] \in Seq(Entry)
      BY <1>0 DEF ChatShape
    <3>3. EditOf(L, server[r.conv])
      BY <3>1, <3>2, RevisedIsEdit, WithoutIsEdit
    <3> QED  BY <1>0, <2>2, <3>1, <3>3, ServerEdits DEF Posts
  <2> QED  BY <2>1, <2>2
<1>3. /\ \A i \in 1 .. Len(written) : i \in 1 .. Len(written') /\ written'[i] = written[i]
      /\ \A m : AtServer(m) => AtServer(m)'
      /\ Len(written') \in Nat
  BY <1>0, <1>2, StoredStays
<1>4. r \in Posts => /\ Len(written') = Len(written) + 1 /\ Len(written') \in 1 .. Len(written')
                     /\ written'[Len(written')] = r.item.text
  BY <1>0, <1>2
<1>5. /\ requests' \subseteq [kind : {"send", "retry", "edit", "delete"}, conv : Conversation,
                              item : Entry, at : {"asked", "done", "failed"}, id : Nat]
      /\ RequestsAreTrue'
      /\ \A q \in Posts' : \E p \in Posts :
            /\ p.item.text = q.item.text /\ p.conv = q.conv
            /\ (p.at = "done" => q.at = "done")
      /\ r \in Posts => \A q \in Posts' : q.item.text = r.item.text => q.at = at
  <2>1. PICK id \in Nat : id = IF at = "done" THEN Len(written') ELSE 0
    BY <1>3
  <2>2. Turn(r, at, id)
    BY <2>1
  <2>3. at = "done" /\ r \in Posts => id \in 1 .. Len(written') /\ written'[id] = r.item.text
    BY <1>4, <2>1
  <2> QED  BY <1>0, <1>2, <1>3, <2>2, <2>3, RequestTurns
<1>6. ChatShape'
  BY <1>0, <1>1, <1>2, <1>5 DEF ChatShape
<1>7. \A c \in Conversation, t \in Int, s \in {"sending", "failed"} :
        Waits(c, t, s)' => Waits(c, t, s)
  BY DEF Waits
<1>8. TextsHaveOneHome' /\ \A t \in Int : MayBeStored(t)' => MayBeStored(t)
  BY <1>0, <1>5, <1>7, NoTextMoves
<1>9. CopiesAreCounted'
  <2>1. \A t \in 1 .. MaxTexts : t \in Int
    BY ChatAssumption
  <2>2. CASE r \notin Posts
    <3>1. written' = written /\ unanswered' = unanswered
      BY <1>0, <1>1, <1>2, <2>2 DEF Posts, ChatShape
    <3> QED  BY <1>0, <1>8, <3>1, CountsStay
  <2>3. ASSUME r \in Posts, NEW t \in 1 .. MaxTexts
        PROVE  /\ Cardinality(Copies(t)') <= 1 + unanswered'
               /\ MayBeStored(t)' => Cardinality(Copies(t)') <= unanswered'
    <3>1. /\ Cardinality(Copies(t)) \in Nat
          /\ t # r.item.text => Cardinality(Copies(t)') = Cardinality(Copies(t))
          /\ t = r.item.text => Cardinality(Copies(t)') = Cardinality(Copies(t)) + 1
      BY <1>0, <1>2, <2>3, CopiesGrow
    <3>2. /\ Cardinality(Copies(t)) <= 1 + unanswered
          /\ MayBeStored(t) => Cardinality(Copies(t)) <= unanswered
      BY <1>0 DEF CopiesAreCounted
    <3>3. CASE t # r.item.text
      BY <1>1, <1>8, <2>1, <3>1, <3>2, <3>3
    <3>4. CASE t = r.item.text
      <4>1. MayBeStored(t)
        BY <2>3, <3>4 DEF MayBeStored
      <4>2. at = "failed" => unanswered' = unanswered + 1
        BY <2>3 DEF Posts
      <4>3. at = "done" => ~MayBeStored(t)'
        <5>1. ~(t > typed')
          <6>1. Unsent(r.item)
            BY <1>0, <2>3 DEF RequestsAreTrue
          <6> QED  BY <1>0, <3>4, <6>1 DEF Unsent, ChatShape
        <5>2. \A c \in Conversation : ~Waits(c, t, "failed")'
          BY <1>0, <1>7, <2>1, <2>3, <3>4 DEF TextsHaveOneHome
        <5> QED  BY <1>5, <2>3, <3>4, <5>1, <5>2 DEF MayBeStored
      <4> QED  BY <1>1, <3>1, <3>2, <3>4, <4>1, <4>2, <4>3
    <3> QED  BY <3>3, <3>4
  <2> QED  BY <2>2, <2>3 DEF CopiesAreCounted
<1> QED  BY <1>2, <1>5, <1>6, <1>8, <1>9 DEF ChatInv

\* A refused request leaves everything as it was but its own state.
LEMMA RefusingKeeps ==
  ASSUME ChatInv, NEW r \in requests, RequestRefused(r)
  PROVE  ChatInv'
<1>0. /\ ChatShape /\ ListsAreTrue /\ RequestsAreTrue /\ TextsHaveOneHome /\ CopiesAreCounted
      /\ MaxChatFailures \in Nat /\ written \in Seq(Int)
  BY ChatAssumption DEF ChatInv, ChatShape
<1>1. /\ UNCHANGED <<side, server, written, open, cache, fetch, mode, barred, typed, others,
                     unanswered>>
      /\ r.at = "asked" /\ Turn(r, "failed", 0)
      /\ chatFailures' \in chatFailures .. MaxChatFailures
  BY <1>0 DEF RequestRefused, channel, ChatShape
<1>2. \A m : AtServer(m) => AtServer(m)'
  BY <1>1 DEF AtServer
<1>3. /\ requests' \subseteq [kind : {"send", "retry", "edit", "delete"}, conv : Conversation,
                              item : Entry, at : {"asked", "done", "failed"}, id : Nat]
      /\ RequestsAreTrue'
      /\ \A q \in Posts' : \E p \in Posts :
            /\ p.item.text = q.item.text /\ p.conv = q.conv
            /\ (p.at = "done" => q.at = "done")
  BY <1>0, <1>1, <1>2, RequestTurns
<1>4. ChatShape'
  BY <1>0, <1>1, <1>3 DEF ChatShape
<1>5. ListsAreTrue'
  BY <1>0, <1>1, ListsUnchanged
<1>6. \A c \in Conversation, t \in Int, s \in {"sending", "failed"} :
        Waits(c, t, s)' => Waits(c, t, s)
  BY <1>1 DEF Waits
<1>7. TextsHaveOneHome' /\ \A t \in Int : MayBeStored(t)' => MayBeStored(t)
  BY <1>0, <1>1, <1>3, <1>6, NoTextMoves
<1>8. CopiesAreCounted'
  BY <1>0, <1>1, <1>7, CountsStay
<1> QED  BY <1>3, <1>4, <1>5, <1>7, <1>8 DEF ChatInv

\* What the other party writes is not one of the texts of the page.
LEMMA OthersKeep ==
  ASSUME ChatInv, NEW c \in Conversation, OtherChanges(c)
  PROVE  ChatInv'
<1>0. /\ ChatShape /\ ListsAreTrue /\ RequestsAreTrue /\ TextsHaveOneHome /\ CopiesAreCounted
      /\ written \in Seq(Int) /\ others \in Nat /\ server[c] \in Seq(Entry)
  BY DEF ChatInv, ChatShape
<1>1. /\ others' = others + 1
      /\ UNCHANGED <<side, open, cache, fetch, requests, mode, barred, typed, chatFailures,
                     unanswered>>
  BY DEF OtherChanges
<1>2. /\ server' \in [Conversation -> Seq(Entry)] /\ ListsAreTrue'
      /\ written' = written \/ written' = Append(written, -others')
  <2>1. CASE /\ server' = [server EXCEPT ![c] =
                             Append(@, Message(Len(written) + 1, -others', 0, "sent"))]
             /\ written' = Append(written, -others')
    <3>1. PICK t \in Int : t = -others'
      BY <1>0, <1>1
    <3> QED  BY <1>0, <1>1, <2>1, <3>1, ServerStores
  <2>2. ASSUME NEW i \in DOMAIN server[c],
               server' = [server EXCEPT ![c] = Without(@, server[c][i].id)], written' = written
        PROVE  server' \in [Conversation -> Seq(Entry)] /\ ListsAreTrue'
    <3>1. PICK L : L = Without(server[c], server[c][i].id)
      OBVIOUS
    <3>2. EditOf(L, server[c])
      BY <1>0, <3>1, WithoutIsEdit
    <3>3. server' = [server EXCEPT ![c] = L]
      BY <2>2, <3>1
    <3> QED  BY <1>0, <1>1, <2>2, <3>2, <3>3, ServerEdits
  <2> QED  BY <2>1, <2>2 DEF OtherChanges
<1>3. /\ written' \in Seq(Int)
      /\ \A m : AtServer(m) => AtServer(m)'
      /\ \A i \in 1 .. Len(written) : i \in 1 .. Len(written') /\ written'[i] = written[i]
  <2>1. written' = written \/ \E t \in Int : written' = Append(written, t)
    BY <1>0, <1>1, <1>2
  <2> QED  BY <1>0, <2>1, StoredStays
<1>4. ChatShape'
  <2>1. server' \in [Conversation -> Seq(Entry)] /\ written' \in Seq(Int) /\ others' \in Nat
    BY <1>0, <1>1, <1>2, <1>3
  <2> QED  BY <1>0, <1>1, <2>1 DEF ChatShape
<1>5. Posts' = Posts /\ \A m : Unsent(m) => Unsent(m)'
  BY <1>1 DEF Posts, Unsent
<1>6. RequestsAreTrue'
  <2>1. \A r \in requests' \ Posts' : AtServer(r.item)'
    BY <1>0, <1>1, <1>3, <1>5 DEF RequestsAreTrue
  <2>2. \A r \in Posts' :
          /\ Unsent(r.item)'
          /\ r.at = "done" => r.id \in 1 .. Len(written') /\ written'[r.id] = r.item.text
          /\ side' = "professor" => r.kind = "send" /\ r.item.text = typed'
    BY <1>0, <1>1, <1>3, <1>5 DEF RequestsAreTrue
  <2>3. \A r, q \in Posts' : r.item.text = q.item.text => r = q
    BY <1>0, <1>5 DEF RequestsAreTrue
  <2> QED  BY <2>1, <2>2, <2>3 DEF RequestsAreTrue
<1>7. \A k \in Conversation, t \in Int, s \in {"sending", "failed"} :
        Waits(k, t, s)' => Waits(k, t, s)
  BY <1>1 DEF Waits
<1>8. TextsHaveOneHome' /\ \A t \in Int : MayBeStored(t)' => MayBeStored(t)
  BY <1>0, <1>1, <1>5, <1>7, NoTextMoves
<1>9. CopiesAreCounted'
  <2>1. CASE written' = written
    BY <1>0, <1>1, <1>8, <2>1, CountsStay
  <2>2. CASE written' = Append(written, -others')
    <3>1. \A t \in 1 .. MaxTexts : t \in Int /\ t # -others'
      BY <1>0, <1>1, ChatAssumption
    <3>2. PICK u \in Int : u = -others'
      BY <1>0, <1>1
    <3>3. written' = Append(written, u)
      BY <2>2, <3>2
    <3>4. \A t \in 1 .. MaxTexts : Cardinality(Copies(t)') = Cardinality(Copies(t))
      BY <1>0, <3>1, <3>2, <3>3, CopiesGrow
    <3> QED  BY <1>0, <1>1, <1>8, <3>1, <3>4 DEF CopiesAreCounted
  <2> QED  BY <1>2, <2>1, <2>2
<1> QED  BY <1>2, <1>4, <1>6, <1>8, <1>9 DEF ChatInv

\* A send that failed is offered again: on the student's page the message is marked in the
\* list of its conversation, if that is still shown; the professor types the text again.
LEMMA FailingKeeps ==
  ASSUME ChatInv, NEW r \in Posts, r.at = "failed", Apology(r), requests' = requests \ {r},
         typed' = IF side = "professor" /\ r.kind = "send" THEN typed - 1 ELSE typed,
         UNCHANGED <<side, server, written, open, mode, barred, others, chatFailures, unanswered>>
  PROVE  ChatInv'
<1>0. /\ ChatShape /\ ListsAreTrue /\ RequestsAreTrue /\ TextsHaveOneHome /\ CopiesAreCounted
      /\ open \in Conversation /\ r.conv \in Conversation /\ r.item \in Entry
      /\ r.kind \in {"send", "retry"} /\ Unsent(r.item)
  <2>1. ChatShape /\ ListsAreTrue /\ RequestsAreTrue /\ TextsHaveOneHome /\ CopiesAreCounted
    BY DEF ChatInv
  <2>2. open \in Conversation /\ r.conv \in Conversation /\ r.item \in Entry
    BY <2>1 DEF ChatShape, Posts
  <2>3. Unsent(r.item)
    BY <2>1 DEF RequestsAreTrue
  <2> QED  BY <2>1, <2>2, <2>3 DEF Posts
<1>1. /\ Posts' = Posts \ {r} /\ requests' \ Posts' = requests \ Posts
      /\ \A q \in Posts' : q.item.text # r.item.text
  BY <1>0 DEF Posts, RequestsAreTrue
<1>2. /\ typed \in 0 .. MaxTexts /\ MaxTexts \in Nat /\ r.item.text \in 1 .. typed
      /\ r.item.id \in Int /\ r.item.id < 0 /\ -r.item.id = r.item.text
  <2>1. typed \in 0 .. MaxTexts /\ MaxTexts \in Nat
    BY <1>0, ChatAssumption DEF ChatShape
  <2>2. r.item.text \in 1 .. typed /\ r.item.id = -r.item.text
    BY <1>0 DEF Unsent
  <2> QED  BY <2>1, <2>2
<1>3. CASE side = "student"
  <2>1. Mutate(r.conv, Marked(Cached(r.conv), r.item.id, "failed")) /\ typed' = typed
    BY <1>0, <1>3 DEF Apology
  <2>2. PICK conv, id, items : /\ conv = r.conv /\ id = r.item.id
                               /\ items = Marked(Cached(r.conv), r.item.id, "failed")
    OBVIOUS
  <2>3. /\ items \in Seq(Entry)
        /\ side = "student" => Distinct(items)
        /\ \A i \in DOMAIN items :
              /\ AtServer(items[i]) \/ (side = "student" /\ conv = open /\ Unsent(items[i]))
              /\ items[i].st # "sent" =>
                    /\ i \in DOMAIN cache[open].items
                    /\ cache[open].items[i].text = items[i].text
                    /\ cache[open].items[i].st \in {"sending", "failed"}
                    /\ items[i].st = IF items[i].text = r.item.text THEN "failed"
                                     ELSE cache[open].items[i].st
    BY <1>0, <1>2, <2>2, MarkedIsTrue
  <2>4. /\ cache' \in [Conversation -> [conv : Conversation, items : Seq(Entry)]]
        /\ fetch' \in [Conversation -> [st : {"none", "asked", "read"}, items : Seq(Entry)]]
        /\ ListsAreTrue'
    BY <1>0, <2>1, <2>2, <2>3, ListIsRewritten
  <2>5. /\ cache'[open] = [conv |-> conv, items |-> items]
        /\ \A c \in Conversation : c # open => cache'[c] = cache[c]
    BY <1>0, <2>1, <2>2, <2>3, ListIsWritten
  <2>6. ChatShape'
    BY <1>0, <2>1, <2>4 DEF ChatShape
  <2>7. \A m : (AtServer(m) => AtServer(m)') /\ (Unsent(m) => Unsent(m)')
    BY <2>1 DEF AtServer, Unsent
  <2>8. RequestsAreTrue'
    <3>1. \A q \in requests' \ Posts' : AtServer(q.item)'
      BY <1>0, <1>1, <2>7 DEF RequestsAreTrue
    <3>2. \A q \in Posts' :
            /\ Unsent(q.item)'
            /\ q.at = "done" => q.id \in 1 .. Len(written') /\ written'[q.id] = q.item.text
            /\ side' = "professor" => q.kind = "send" /\ q.item.text = typed'
      BY <1>0, <1>1, <2>1, <2>7 DEF RequestsAreTrue
    <3>3. \A q, p \in Posts' : q.item.text = p.item.text => q = p
      BY <1>0, <1>1 DEF RequestsAreTrue
    <3> QED  BY <3>1, <3>2, <3>3 DEF RequestsAreTrue
  <2>9. ASSUME NEW c \in Conversation, NEW t \in Int, NEW s \in {"sending", "failed"},
               Waits(c, t, s)'
        PROVE  /\ t # r.item.text => Waits(c, t, s)
               /\ \E z \in {"sending", "failed"} : Waits(c, t, z)
    <3>1. CASE c = open
      <4>1. PICK i \in DOMAIN items : items[i].text = t /\ items[i].st = s
        BY <2>5, <2>9, <3>1 DEF Waits
      <4> QED  BY <2>3, <3>1, <4>1 DEF Waits
    <3>2. CASE c # open
      BY <2>5, <2>9, <3>2 DEF Waits
    <3> QED  BY <3>1, <3>2
  <2>10. TextsHaveOneHome'
    <3>1. ASSUME NEW t \in Int, NEW c \in Conversation, NEW s \in {"sending", "failed"},
                 Waits(c, t, s)'
          PROVE  /\ \A d \in Conversation, z \in {"sending", "failed"} :
                       Waits(d, t, z)' => d = c
                 /\ \A q \in Posts' : q.item.text = t => q.conv = c /\ s = "sending"
      <4>1. \A d \in Conversation, z \in {"sending", "failed"} : Waits(d, t, z)' => d = c
        BY <1>0, <2>9, <3>1 DEF TextsHaveOneHome
      <4>2. \A q \in Posts' : q.item.text = t => q.conv = c /\ s = "sending"
        BY <1>0, <1>1, <2>9, <3>1 DEF TextsHaveOneHome
      <4> QED  BY <4>1, <4>2
    <3> QED  BY <3>1 DEF TextsHaveOneHome
  <2>11. ASSUME NEW t \in Int, MayBeStored(t)' PROVE MayBeStored(t)
    <3>1. CASE t = r.item.text
      BY <3>1 DEF MayBeStored
    <3>2. CASE t # r.item.text
      BY <1>1, <2>1, <2>9, <2>11, <3>2 DEF MayBeStored
    <3> QED  BY <3>1, <3>2
  <2>12. CopiesAreCounted'
    BY <1>0, <2>11, CountsStay
  <2> QED  BY <2>4, <2>6, <2>8, <2>10, <2>12 DEF ChatInv
<1>4. CASE side = "professor"
  <2>1. /\ r.kind = "send" /\ r.item.text = typed /\ Posts' = {}
        /\ typed' = typed - 1 /\ cache' = cache /\ fetch' = fetch
    <3>1. r.kind = "send" /\ r.item.text = typed /\ \A q \in Posts : q = r
      BY <1>0, <1>4 DEF RequestsAreTrue
    <3> QED  BY <1>1, <1>4, <3>1 DEF Apology
  <2>2. ChatShape'
    <3>1. typed' \in 0 .. MaxTexts
      BY <1>2, <2>1
    <3>2. requests' \subseteq [kind : {"send", "retry", "edit", "delete"}, conv : Conversation,
                               item : Entry, at : {"asked", "done", "failed"}, id : Nat]
      BY <1>0 DEF ChatShape
    <3> QED  BY <1>0, <2>1, <3>1, <3>2 DEF ChatShape
  <2>3. \A m : AtServer(m) => AtServer(m)'
    BY DEF AtServer
  <2>4. ListsAreTrue'
    BY <1>0, <1>4, <2>1, <2>3, ListsStay
  <2>5. RequestsAreTrue'
    BY <1>0, <1>1, <2>1, <2>3 DEF RequestsAreTrue
  <2>6. \A c \in Conversation, t \in Int, s \in {"sending", "failed"} :
          ~Waits(c, t, s) /\ ~Waits(c, t, s)'
    <3>1. \A c \in Conversation : \A i \in DOMAIN cache[c].items : cache[c].items[i].st = "sent"
      BY <1>0, <1>4 DEF ListsAreTrue, KeptUnder, AtServer
    <3> QED  BY <2>1, <3>1 DEF Waits
  <2>7. TextsHaveOneHome'
    BY <2>6 DEF TextsHaveOneHome
  <2>8. ASSUME NEW t \in 1 .. MaxTexts, MayBeStored(t)' PROVE MayBeStored(t)
    <3>1. t > typed - 1
      <4>1. t \in Int
        BY <1>2
      <4> QED  BY <2>1, <2>6, <2>8, <4>1 DEF MayBeStored
    <3>2. t > typed \/ t = typed
      BY <1>2, <3>1
    <3> QED  BY <2>1, <3>2 DEF MayBeStored
  <2>9. CopiesAreCounted'
    BY <1>0, <2>8 DEF CopiesAreCounted, Copies
  <2> QED  BY <2>2, <2>4, <2>5, <2>7, <2>9 DEF ChatInv
<1> QED  BY <1>0, <1>3, <1>4 DEF ChatShape

\* An answer puts what the server stored, or revises what is shown, in the open list.
LEMMA AnswerKeeps ==
  ASSUME ChatInv, NEW r \in requests, RequestAnswered(r)
  PROVE  ChatInv'
<1>0. /\ ChatShape /\ ListsAreTrue /\ RequestsAreTrue /\ open \in Conversation
      /\ <<>> \in Seq(Entry) /\ Distinct(<<>>)
  BY DEF ChatInv, ChatShape, Distinct
<1>1. /\ r.conv \in Conversation /\ r.item \in Entry /\ r.id \in Nat
      /\ r.kind \in {"send", "retry", "edit", "delete"}
      /\ requests' = requests \ {r}
      /\ UNCHANGED <<side, server, written, open, mode, barred, news, others, chatFailures,
                     unanswered>>
  BY <1>0 DEF RequestAnswered, channel, ChatShape
<1>2. PICK C \in Seq(Entry) : C = Cached(r.conv)
  BY <1>0, <1>1, CachedIsTrue
<1>3. /\ side = "student" => Distinct(C)
      /\ \A i \in DOMAIN C :
            /\ i \in DOMAIN cache[open].items /\ C[i] = cache[open].items[i]
            /\ AtServer(C[i]) \/ (side = "student" /\ r.conv = open /\ Unsent(C[i]))
  BY <1>0, <1>1, <1>2, CachedIsTrue
\* Whatever is put in the open list is true, and waits there if it did before.
<1>4. ASSUME NEW L \in Seq(Entry), typed' = typed,
             (cache' = cache /\ fetch' = fetch) \/ Mutate(r.conv, L),
             side = "student" => Distinct(L),
             \A i \in DOMAIN L : (AtServer(L[i]) /\ L[i].st = "sent") \/ \E j \in DOMAIN C : L[i] = C[j]
      PROVE  ChatInv'
  <2>1. \A i \in DOMAIN L :
          /\ AtServer(L[i]) \/ (side = "student" /\ r.conv = open /\ Unsent(L[i]))
          /\ L[i].st # "sent" => \E j \in DOMAIN cache[open].items :
                /\ L[i].text = cache[open].items[j].text
                /\ L[i].st = cache[open].items[j].st
    BY <1>3, <1>4
  <2>2. PICK conv, Q : conv = r.conv /\ Q = {}
    OBVIOUS
  <2>3. /\ requests' \subseteq requests \cup Q
        /\ Q \subseteq [kind : {"edit", "delete"}, conv : Conversation, item : Entry,
                        at : {"asked", "done", "failed"}, id : Nat]
        /\ \A q \in Q : AtServer(q.item)
    BY <1>1, <2>2
  <2> QED  BY <1>1, <1>4, <2>1, <2>2, <2>3, EditKeeps
<1>5. ASSUME UNCHANGED <<cache, fetch, typed>> PROVE ChatInv'
  <2>1. PICK L : L = <<>>
    OBVIOUS
  <2>2. /\ L \in Seq(Entry) /\ Distinct(L)
        /\ \A i \in DOMAIN L : (AtServer(L[i]) /\ L[i].st = "sent") \/ \E j \in DOMAIN C : L[i] = C[j]
    BY <1>0, <2>1
  <2>3. cache' = cache /\ fetch' = fetch /\ typed' = typed
    BY <1>5
  <2> QED  BY <1>4, <2>2, <2>3
<1>6. ASSUME NEW rev \in Nat, Mutate(r.conv, Revised(C, r.item.id, rev)), typed' = typed
      PROVE  ChatInv'
  <2>1. PICK L : L = Revised(C, r.item.id, rev)
    OBVIOUS
  <2>2. EditOf(L, Cached(r.conv))
    BY <1>2, <2>1, RevisedIsEdit
  <2>3. /\ L \in Seq(Entry)
        /\ side = "student" => Distinct(L)
        /\ \A i \in DOMAIN L :
              /\ AtServer(L[i]) \/ (side = "student" /\ r.conv = open /\ Unsent(L[i]))
              /\ L[i].st # "sent" => \E j \in DOMAIN cache[open].items :
                    /\ L[i].text = cache[open].items[j].text
                    /\ L[i].st = cache[open].items[j].st
    BY <1>0, <1>1, <2>2, EditedIsTrue
  <2>4. PICK conv, Q : conv = r.conv /\ Q = {}
    OBVIOUS
  <2>5. /\ requests' \subseteq requests \cup Q
        /\ Q \subseteq [kind : {"edit", "delete"}, conv : Conversation, item : Entry,
                        at : {"asked", "done", "failed"}, id : Nat]
        /\ \A q \in Q : AtServer(q.item)
    BY <1>1, <2>4
  <2> QED  BY <1>1, <1>6, <2>1, <2>3, <2>4, <2>5, EditKeeps
<1>7. ASSUME r.at = "done", Answer(r), typed' = typed PROVE ChatInv'
  <2>1. PICK m : m = Message(r.id, r.item.text, 0, "sent")
    OBVIOUS
  <2>2. r \in Posts => m \in Entry /\ m.st = "sent" /\ m.id = r.id /\ AtServer(m)
    <3>1. m.id = r.id /\ m.text = r.item.text /\ m.st = "sent" /\ m.rev = 0
      BY <2>1 DEF Message
    <3>2. m \in Entry
      BY <1>1, <2>1 DEF Message, Entry
    <3>3. r \in Posts => r.id \in 1 .. Len(written) /\ written[r.id] = r.item.text
      BY <1>0, <1>7 DEF RequestsAreTrue
    <3> QED  BY <3>1, <3>2, <3>3 DEF AtServer
  <2>3. CASE r \in Posts /\ side = "student"
    <3>1. PICK L : L = replaceOptimisticMessage(C, r.item.id, m)
      OBVIOUS
    <3>2. /\ L \in Seq(Entry)
          /\ \A i \in DOMAIN L : L[i] = m \/ \E j \in DOMAIN C : L[i] = C[j]
          /\ Distinct(C) => Distinct(L)
      BY <2>2, <2>3, <3>1, AnsweredIsList
    <3>3. Mutate(r.conv, L)
      BY <1>2, <1>7, <2>1, <2>3, <3>1 DEF Answer, Posts
    <3> QED  BY <1>3, <1>4, <1>7, <2>2, <2>3, <3>2, <3>3
  <2>4. CASE r.kind = "send" /\ side = "professor"
    <3>1. PICK L : L = Append(C, m)
      OBVIOUS
    <3>2. L \in Seq(Entry) /\ \A i \in DOMAIN L : L[i] = m \/ \E j \in DOMAIN C : L[i] = C[j]
      <4>1. m \in Entry
        BY <2>2, <2>4 DEF Posts
      <4> QED  BY <3>1, <4>1, AppendedIsList
    <3>3. Mutate(r.conv, L)
      BY <1>2, <1>7, <2>1, <2>4, <3>1 DEF Answer
    <3> QED  BY <1>4, <1>7, <2>2, <2>4, <3>2, <3>3 DEF Posts
  <2>5. CASE r.kind = "edit"
    BY <1>2, <1>6, <1>7, <2>5 DEF Answer
  <2>6. CASE ~(r \in Posts /\ side = "student") /\ ~(r.kind = "send" /\ side = "professor")
             /\ r.kind # "edit"
    BY <1>5, <1>7, <2>6 DEF Answer, Posts
  <2> QED  BY <2>3, <2>4, <2>5, <2>6
<1>8. ASSUME r.at = "failed", Apology(r),
             typed' = IF side = "professor" /\ r.kind = "send" THEN typed - 1 ELSE typed
      PROVE  ChatInv'
  <2>1. CASE r \in Posts
    BY <1>1, <1>8, <2>1, FailingKeeps
  <2>2. CASE r.kind = "edit" /\ side = "student"
    BY <1>1, <1>2, <1>6, <1>8, <2>2 DEF Apology, Entry
  <2>3. CASE r.kind = "delete"
    <3>1. fetch' = Refreshing /\ cache' = cache /\ typed' = typed
      BY <1>8, <2>3 DEF Apology
    <3>2. /\ mode \in {"starting", "listening", "polling"} /\ (barred => mode = "polling")
          /\ chatFailures \in chatFailures .. MaxChatFailures
      BY <1>0, ChatAssumption DEF ChatShape
    <3> QED  BY <1>0, <1>1, <3>1, <3>2, RefreshingKeeps, ReadingKeeps DEF ChatShape
  <2>4. CASE r.kind = "edit" /\ side # "student"
    BY <1>5, <1>8, <2>4 DEF Apology
  <2> QED  BY <1>1, <2>1, <2>2, <2>3, <2>4 DEF Posts
<1> QED  BY <1>7, <1>8 DEF RequestAnswered

-----------------------------------------------------------------------------
(* The theorems. *)

\* Every step of both parties and of the server keeps the invariant.
LEMMA ChatInductive == ChatInv /\ [ChatNext]_chatVars => ChatInv'
<1> SUFFICES ASSUME ChatInv, [ChatNext]_chatVars PROVE ChatInv'
  OBVIOUS
<1>1. CASE send
  BY <1>1, SendingKeeps
<1>2. CASE retryFailedMessage
  BY <1>2, RetryingKeeps
<1>3. CASE removeFailedMessage \/ saveMessageEdit \/ removeMessage
  BY <1>3, EditingKeeps
<1>4. ASSUME NEW r \in requests, RequestServed(r) PROVE ChatInv'
  <2>1. chatFailures' \in chatFailures .. MaxChatFailures
    BY <1>4, ChatAssumption DEF RequestServed, bounds, ChatInv, ChatShape
  <2>2. unanswered \in Int
    BY ChatAssumption DEF ChatInv, ChatShape
  <2>3. PICK at : at = "done"
    OBVIOUS
  <2> QED  BY <1>4, <2>1, <2>2, <2>3, StoringKeeps DEF RequestServed, bounds, channel
<1>5. ASSUME NEW r \in requests, RequestUnanswered(r) PROVE ChatInv'
  <2>1. chatFailures' \in chatFailures .. MaxChatFailures /\ chatFailures' = chatFailures + 1
    BY <1>5, ChatAssumption DEF RequestUnanswered, ChatInv, ChatShape
  <2>2. PICK at : at = "failed"
    OBVIOUS
  <2> QED  BY <1>5, <2>1, <2>2, StoringKeeps DEF RequestUnanswered, channel
<1>6. ASSUME NEW r \in requests, RequestRefused(r) PROVE ChatInv'
  BY <1>6, RefusingKeeps
<1>7. ASSUME NEW r \in requests, RequestAnswered(r) PROVE ChatInv'
  BY <1>7, AnswerKeeps
<1>8. ASSUME NEW c \in Conversation, OtherChanges(c) PROVE ChatInv'
  BY <1>8, OthersKeep
<1>9. CASE \/ FirstSnapshot \/ EventDelivered \/ ListenFails \/ Poll
           \/ \E c \in Conversation : FetchServed(c) \/ FetchApplied(c) \/ FetchFails(c)
                                      \/ selectThread(c)
  BY <1>9, ChannelKeeps
<1>10. CASE UNCHANGED chatVars
  <2>1. ListsAreTrue'
    BY <1>10, ListsUnchanged DEF ChatInv, chatVars
  <2> QED  BY <1>10, <2>1
           DEF ChatInv, chatVars, ChatShape, RequestsAreTrue, Posts, AtServer, Unsent,
               TextsHaveOneHome, Waits, CopiesAreCounted, Copies, MayBeStored
<1> QED  BY <1>1, <1>2, <1>3, <1>4, <1>5, <1>6, <1>7, <1>8, <1>9, <1>10 DEF ChatNext

\* ChatInv is kept by every step of both parties and of the server.
THEOREM ChatInvariant == ChatSpec => []ChatInv
<1>1. ChatInit => ChatUnused
  BY DEF ChatInit, ChatUnused
<1> QED  BY <1>1, ChatInductive, ChatStarts, PTL DEF ChatSpec

\* The invariant gives the lists their types.
LEMMA ChatInvTypes == ChatInv => ChatTypeOK
<1> SUFFICES ASSUME ChatInv PROVE ChatTypeOK
  OBVIOUS
<1>1. ChatShape /\ ListsAreTrue /\ typed \in Nat
  BY ChatAssumption DEF ChatInv, ChatShape
<1>2. ASSUME NEW c \in Conversation, NEW i \in DOMAIN cache[c].items
      PROVE  LET m == cache[c].items[i]
             IN  m.st = "sent" <=> m.id \in 1 .. Len(written) /\ written[m.id] = m.text
  <2>1. PICK m : m = cache[c].items[i]
    OBVIOUS
  <2>2. AtServer(m) \/ Unsent(m)
    BY <1>1, <2>1 DEF ListsAreTrue, KeptUnder
  <2>3. Unsent(m) => m.st # "sent" /\ m.id \notin 1 .. Len(written)
    BY <1>1 DEF Unsent, ChatShape
  <2> QED  BY <2>1, <2>2, <2>3 DEF AtServer
<1> QED  BY <1>1, <1>2 DEF ChatShape, ChatTypeOK

\* The state of a chat page has the shape the code gives it.
THEOREM ChatTypes == ChatSpec => []ChatTypeOK
<1> QED  BY ChatInvTypes, ChatInvariant, PTL

\* The student's list never shows one stored message twice, whatever the order in which
\* sends, refreshes and edits come in.
THEOREM StudentSeesOnce == ChatSpec => []ShownOnce
<1>1. ChatInv => ShownOnce
  <2> SUFFICES ASSUME ChatInv PROVE ShownOnce
    OBVIOUS
  <2>1. ChatShape /\ ListsAreTrue /\ open \in Conversation
    BY DEF ChatInv, ChatShape
  <2> QED  BY <2>1, CachedIsTrue DEF Shown, ShownOnce, Distinct
<1> QED  BY <1>1, ChatInvariant, PTL

\* A message typed once is stored once, and once more for each answer that was lost.
THEOREM StoredOnce == ChatSpec => []TextsStoredOnce
<1>1. ChatInv => TextsStoredOnce
  BY DEF ChatInv, CopiesAreCounted, Copies, TextsStoredOnce
<1> QED  BY <1>1, ChatInvariant, PTL
=============================================================================
