------------------------------ MODULE LiveRoom ------------------------------
(***************************************************************************)
(* The chat and the questions of a live session, as one page shows them: a *)
(* student's (app/(dashboard)/live/[sessionId]) or the professor's control *)
(* room (app/professor/live/[sessionId]).  The page keeps one cached list, *)
(* read again in full when SWR revalidates it, merged into by realtime     *)
(* events, by the answers to its own requests and, while Firestore cannot  *)
(* be listened to, by a poll (lib/liveSessionData.ts).  The other          *)
(* participants and the outbox between server and page are the environment.*)
(***************************************************************************)
EXTENDS Integers, FiniteSets

CONSTANTS MaxPosts,        \* bound: interactions posted
          MaxModerations,  \* bound: changes of an interaction's status
          MaxLiveFailures, \* bound: failed requests and failures of the channel
          MaxFocus         \* bound: revalidations by focus or session event

ASSUME LiveAssumption ==
    {MaxPosts, MaxModerations, MaxLiveFailures, MaxFocus} \subseteq Nat

VARIABLES
    viewer,      \* whose page is watched: "student" or "professor"
    room,        \* the server's interactions: id -> [kind, own, status]
    list,        \* the page's cached list: id -> status
    calls,       \* the page's own requests under way
    reads,       \* the revalidation ("full") and the poll ("poll") under way
    feed,        \* events written by the server, not yet seen by the page
    link,        \* the channel: "starting", "listening" or "polling"
    spent        \* what is used up of the bounds

liveVars == <<viewer, room, list, calls, reads, feed, link, spent>>

Kinds    == {"message", "question"}
Statuses == {"pending", "answered", "deleted"}
Bounds   == [posts |-> MaxPosts, moderations |-> MaxModerations,
             failures |-> MaxLiveFailures, focus |-> MaxFocus]
Spend(b) == spent[b] < Bounds[b] /\ spent' = [spent EXCEPT ![b] = @ + 1]

NoRead == [at |-> "none", items |-> <<>>]

\* A student is sent the messages, his own questions and the answered ones; what
\* the professor took back is sent to nobody but the professor.
Listed(i) ==
    viewer = "professor"
    \/ /\ room[i].status # "deleted"
       /\ room[i].kind = "message" \/ room[i].own \/ room[i].status = "answered"

listInteractions ==
    [i \in {j \in DOMAIN room : Listed(j)} |-> room[i].status]

-----------------------------------------------------------------------------
(* The cached list.  A change made in place throws away what was being     *)
(* read; so does the start of a poll, which is such a change itself.       *)

Overlay(new, old) == [i \in DOMAIN new \cup DOMAIN old |->
                        IF i \in DOMAIN new THEN new[i] ELSE old[i]]

\* The list of one entry.
One(i, entry) == [j \in {i} |-> entry]

\* As mergeLiveInteractions, with the entry already known winning.
mergeKeepingKnown(items, next) == Overlay(items, next)

mergeLiveInteractions(items, next) == Overlay(next, items)

Mutated(next) ==
    /\ list' = mergeLiveInteractions(list, next)
    /\ reads' = [full |-> NoRead, poll |-> NoRead]

StartRead(r) ==
    IF r = "full" THEN [reads EXCEPT !.full = [at |-> "asked", items |-> <<>>]]
    ELSE [full |-> NoRead, poll |-> [at |-> "asked", items |-> <<>>]]

-----------------------------------------------------------------------------
LiveInit ==
    /\ viewer \in {"student", "professor"}
    /\ room = <<>> /\ list = <<>>
    /\ calls = {} /\ feed = {}
    /\ reads = [full |-> [at |-> "asked", items |-> <<>>], poll |-> NoRead]
    /\ link = "starting"
    /\ spent = [b \in DOMAIN Bounds |-> 0]

Post(kind, own) ==
    LET i == Cardinality(DOMAIN room) + 1
    IN  /\ room' = Overlay(One(i, [kind |-> kind, own |-> own, status |-> "pending"]), room)
        /\ feed' = feed \cup {<<i, "pending">>}

Moderate(i, status) ==
    /\ room[i].status # status
    /\ room' = [room EXCEPT ![i].status = status]
    /\ feed' = feed \cup {<<i, status>>}

\* The student's page sends one interaction at a time and shows it when stored;
\* a failure leaves the text in the composer.
submitInteraction(kind) ==
    /\ viewer = "student" /\ calls = {}
    /\ Spend("posts")
    /\ calls' = {[at |-> "asked", do |-> "post", kind |-> kind]}
    /\ UNCHANGED <<viewer, room, list, reads, feed, link>>

\* The professor marks a question he sees as answered.
markAnswered(i) ==
    /\ viewer = "professor" /\ calls = {}
    /\ i \in DOMAIN list /\ list[i] = "pending" /\ room[i].kind = "question"
    /\ Spend("moderations")
    /\ calls' = {[at |-> "asked", do |-> "answer", id |-> i]}
    /\ UNCHANGED <<viewer, room, list, reads, feed, link>>

CallServed(c) ==
    /\ c.at = "asked"
    /\ IF c.do = "post"
       THEN /\ Post(c.kind, TRUE)
            /\ calls' = {[at |-> "done", id |-> Cardinality(DOMAIN room'), status |-> "pending"]}
       ELSE /\ room' = [room EXCEPT ![c.id].status = "answered"]
            /\ feed' = feed \cup {<<c.id, "answered">>}
            /\ calls' = {[at |-> "done", id |-> c.id, status |-> "answered"]}
    /\ UNCHANGED <<viewer, list, reads, link, spent>>

CallAnswered(c) ==
    /\ c.at = "done"
    /\ Mutated(One(c.id, c.status))
    /\ calls' = {}
    /\ UNCHANGED <<viewer, room, feed, link, spent>>

\* Refused, or carried out and not answered.
CallFails(c) ==
    /\ Spend("failures")
    /\ calls' = {}
    /\ UNCHANGED <<viewer, room, list, reads, feed, link>>

\* Another student writes.
OtherPosts(kind) ==
    /\ Spend("posts")
    /\ Post(kind, FALSE)
    /\ UNCHANGED <<viewer, list, calls, reads, link>>

\* The professor, or another tab of his, answers, takes back or restores.
Moderated(i, status) ==
    /\ Spend("moderations")
    /\ Moderate(i, status)
    /\ UNCHANGED <<viewer, list, calls, reads, link>>

-----------------------------------------------------------------------------
(* Reads. *)

ReadServed(r) ==
    /\ reads[r].at = "asked"
    /\ reads' = [reads EXCEPT ![r] = [at |-> "read", items |-> listInteractions]]
    /\ UNCHANGED <<viewer, room, list, calls, feed, link, spent>>

\* A full read replaces the list, unless a poll is under way.
FullApplied ==
    /\ reads.full.at = "read"
    /\ list' = IF reads.poll = NoRead THEN reads.full.items ELSE list
    /\ reads' = [reads EXCEPT !.full = NoRead]
    /\ UNCHANGED <<viewer, room, calls, feed, link, spent>>

PollApplied ==
    /\ reads.poll.at = "read"
    /\ Mutated(reads.poll.items)
    /\ UNCHANGED <<viewer, room, calls, feed, link, spent>>

\* A poll that fails ends its change of the list all the same.
ReadFails(r) ==
    /\ reads[r] # NoRead
    /\ Spend("failures")
    /\ reads' = IF r = "full" THEN [reads EXCEPT !.full = NoRead]
                ELSE [full |-> NoRead, poll |-> NoRead]
    /\ UNCHANGED <<viewer, room, list, calls, feed, link>>

\* The window gets the focus, a session event arrives, or the user asks.
mutateAll ==
    /\ Spend("focus")
    /\ reads.full = NoRead
    /\ reads' = StartRead("full")
    /\ UNCHANGED <<viewer, room, list, calls, feed, link>>

-----------------------------------------------------------------------------
(* The channel. *)

\* What the first snapshot holds is skipped for one poll.
RoomSnapshot ==
    /\ link = "starting"
    /\ link' = "listening" /\ reads' = StartRead("poll")
    /\ feed' \in SUBSET feed
    /\ UNCHANGED <<viewer, room, list, calls, spent>>

\* The outbox may deliver late what failed first: the events come in any order.
handleEvent(e) ==
    /\ link = "listening"
    /\ feed' = feed \ {e}
    /\ Mutated(One(e[1], e[2]))
    /\ UNCHANGED <<viewer, room, calls, link, spent>>

RoomListenFails ==
    /\ link \in {"starting", "listening"}
    /\ Spend("failures")
    /\ link' = "polling" /\ reads' = StartRead("poll") /\ feed' = {}
    /\ UNCHANGED <<viewer, room, list, calls>>

\* The page is rendered again: mutateAll is a new function each time, and the
\* subscription starts over with it.
Resubscribes ==
    /\ link' = "starting"
    /\ UNCHANGED <<viewer, room, list, calls, reads, feed, spent>>

\* The interval timer; a poll under way is not repeated.
runPoll ==
    /\ link = "polling" /\ reads.poll = NoRead
    /\ reads' = StartRead("poll")
    /\ UNCHANGED <<viewer, room, list, calls, feed, link, spent>>

LiveNext ==
    \/ \E kind \in Kinds : submitInteraction(kind) \/ OtherPosts(kind)
    \/ \E i \in DOMAIN room : markAnswered(i) \/ \E s \in Statuses : Moderated(i, s)
    \/ \E c \in calls : CallServed(c) \/ CallAnswered(c) \/ CallFails(c)
    \/ \E r \in {"full", "poll"} : ReadServed(r) \/ ReadFails(r)
    \/ FullApplied \/ PollApplied \/ mutateAll
    \/ RoomSnapshot \/ RoomListenFails \/ Resubscribes \/ runPoll
    \/ \E e \in feed : handleEvent(e)

\* Requests are answered in the end, and the interval timer runs while it polls.
LiveFairness ==
    /\ WF_liveVars(\E c \in calls : CallServed(c) \/ CallAnswered(c))
    /\ WF_liveVars(ReadServed("full") \/ FullApplied)
    /\ WF_liveVars(ReadServed("poll") \/ PollApplied)
    /\ WF_liveVars(RoomSnapshot \/ runPoll)

LiveSpec == LiveInit /\ [][LiveNext]_liveVars /\ LiveFairness

-----------------------------------------------------------------------------
LiveTypeOK ==
    /\ DOMAIN list \subseteq DOMAIN room
    /\ \A i \in DOMAIN list : list[i] \in Statuses
    /\ \A e \in feed : e[1] \in DOMAIN room /\ e[2] \in Statuses
    /\ Cardinality(calls) <= 1
    /\ \A b \in DOMAIN Bounds : spent[b] \in 0 .. Bounds[b]

\* A page that polls ends up showing every interaction the server lists for it,
\* with its status, whatever events, answers and reads overlapped.  The converse
\* fails: what was taken back stays on a student's page, which only merges.
LivePollConverges ==
    <>[](link = "polling" =>
            \A i \in DOMAIN room : Listed(i) => i \in DOMAIN list /\ list[i] = room[i].status)
=============================================================================
