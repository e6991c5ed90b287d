----------------------------- MODULE TaskManager -----------------------------
(***************************************************************************)
(* The gRPC service TaskManagerImpl of 22-networking/exemples/             *)
(* ex06_3_grpc.cpp.  gRPC runs the handlers of different calls on its own  *)
(* threads: CreateTask allocates its id before it takes the mutex, so the  *)
(* calls of several clients interleave between the two.  One client lists  *)
(* the tasks page after page, following next_page_token to the end, while  *)
(* others create.                                                          *)
(***************************************************************************)
EXTENDS Integers, Sequences, FiniteSets, SequencesExt

CONSTANTS Creators,      \* clients that call CreateTask
          CreatesEach,   \* how many times each does
          PageSizes      \* the page sizes a client asks for, 0 when it sets none

MaxId == CreatesEach * Cardinality(Creators)
ASSUME IdsAssumption == MaxId < 100
ASSUME CreatorsAssumption == "lister" \notin Creators
ASSUME PageSizesAssumption == PageSizes \subseteq Int
NoToken == 0             \* the empty page_token

VARIABLES tasks_,        \* the map from id number to the creator of the task
          next_id_,
          pc,            \* where each creator's call is
          id,            \* the id its call has allocated
          answers,       \* per creator, the ids its calls were answered with
          token,         \* the lister's next page_token
          listed,        \* the ids it was given, in order
          present,       \* history: the ids in the map when it began
          tokens         \* history: the page tokens it was given

vars == <<tasks_, next_id_, pc, id, answers, token, listed, present, tokens>>

Init == /\ tasks_ = <<>>
        /\ next_id_ = 1
        /\ pc = [c \in Creators \cup {"lister"} |-> "ready"]
        /\ id = [c \in Creators |-> 0]
        /\ answers = [c \in Creators |-> {}]
        /\ token = NoToken
        /\ listed = <<>>
        /\ present = {}
        /\ tokens = {}

Goto(c, from, to) == pc[c] = from /\ pc' = [pc EXCEPT ![c] = to]

\* The order of the ids "task-" + to_string(n) as std::map<std::string> keeps
\* them, n < 100: "task-1", "task-10", ..., "task-19", "task-2", ...
Rank(n) == IF n < 10 THEN 11 * n ELSE 11 * (n \div 10) + 1 + (n % 10)

\* The map's keys in its order of iteration.
Before(map, n) == {m \in DOMAIN map : Rank(m) < Rank(n)}
Keys(map) == [k \in 1 .. Cardinality(DOMAIN map) |->
                CHOOSE n \in DOMAIN map : Cardinality(Before(map, n)) = k - 1]
-----------------------------------------------------------------------------
(* Wrong forms of the definitions below. *)

\* next_id_ read and incremented by two calls at once, not atomically.
AllocateRacy(c) == /\ Goto(c, "ready", "insert")
                   /\ \E n \in {next_id_, IF next_id_ > 1 THEN next_id_ - 1 ELSE 1} :
                        /\ id' = [id EXCEPT ![c] = n]
                        /\ next_id_' = n + 1
                   /\ UNCHANGED <<tasks_, answers, token, listed, present, tokens>>

\* A page that begins with the last task of the page before.
FromTokenBack(map, tok) ==
    IF tok = NoToken THEN Keys(map)
    ELSE SubSeq(Keys(map), IndexFirstSubSeq(<<tok>>, Keys(map)) - 1, Len(Keys(map)))

\* No token when a single task is left over.
PageForgetsLast(map, size, tok) ==
    LET rest == IF tok = NoToken THEN Keys(map)
                ELSE SelectSeq(Keys(map), LAMBDA n : Rank(n) > Rank(tok))
        max == IF size > 0 THEN size ELSE 10
    IN IF Len(rest) <= max THEN [ids |-> rest, next |-> NoToken]
       ELSE [ids |-> SubSeq(rest, 1, max),
             next |-> IF Len(rest) = max + 1 THEN NoToken ELSE rest[max + 1]]
-----------------------------------------------------------------------------
\* next_id_++ on an atomic, before the lock.
Allocate(c) == /\ Goto(c, "ready", "insert")
               /\ id' = [id EXCEPT ![c] = next_id_]
               /\ next_id_' = next_id_ + 1
               /\ UNCHANGED <<tasks_, answers, token, listed, present, tokens>>

\* tasks_[id] = task under the lock, and the answer that carries the task.
Insert(c) == /\ Goto(c, "insert", "reply")
             /\ tasks_' = [n \in DOMAIN tasks_ \cup {id[c]} |->
                            IF n = id[c] THEN c ELSE tasks_[n]]
             /\ UNCHANGED <<next_id_, id, answers, token, listed, present, tokens>>

Reply(c) == /\ answers' = [answers EXCEPT ![c] = @ \cup {id[c]}]
            /\ Goto(c, "reply", IF Cardinality(answers'[c]) < CreatesEach
                                THEN "ready" ELSE "done")
            /\ UNCHANGED <<tasks_, next_id_, id, token, listed, present, tokens>>

\* The keys ListTasks goes through once it is past the token: the token's own
\* key is skipped with those before it, and an unknown token skips them all.
FromToken(map, tok) == IF tok = NoToken THEN Keys(map)
                       ELSE IF tok \notin DOMAIN map THEN <<>>
                       ELSE SubSeq(Keys(map), Cardinality(Before(map, tok)) + 2,
                                   Cardinality(DOMAIN map))

\* One page: at most page_size tasks (10 when the request has none), and as
\* next_page_token the id of the first task that did not fit.
Page(map, size, tok) ==
    LET rest == FromToken(map, tok)
        max == IF size > 0 THEN size ELSE 10
    IN IF Len(rest) <= max THEN [ids |-> rest, next |-> NoToken]
       ELSE [ids |-> SubSeq(rest, 1, max), next |-> rest[max + 1]]

\* One ListTasks call of the client that follows the tokens.
List == /\ pc["lister"] \in {"ready", "more"}
        /\ \E size \in PageSizes :
             LET page == Page(tasks_, size, token)
             IN /\ listed' = listed \o page.ids
                /\ token' = page.next
                /\ pc' = [pc EXCEPT !["lister"] =
                            IF page.next = NoToken THEN "done" ELSE "more"]
                /\ tokens' = tokens \cup ({page.next} \ {NoToken})
        /\ present' = IF pc["lister"] = "ready" THEN DOMAIN tasks_ ELSE present
        /\ UNCHANGED <<tasks_, next_id_, id, answers>>

Ended == (\A c \in DOMAIN pc : pc[c] = "done") /\ UNCHANGED vars

Next == \/ \E c \in Creators : Allocate(c) \/ Insert(c) \/ Reply(c)
        \/ List
        \/ Ended

Spec == Init /\ [][Next]_vars
-----------------------------------------------------------------------------
\* GetTask: the task, or NOT_FOUND.
Found(n) == n \in DOMAIN tasks_

\* Every answered CreateTask can be read back as the caller's own task, however
\* the calls of others interleave between l.30 and l.45.
AnsweredTasksKept == \A c \in Creators : \A n \in answers[c] :
                       Found(n) /\ tasks_[n] = c

\* A listing gives no task twice, over all its pages (l.84-90).
NothingListedTwice == IsInjective(listed)

\* What a complete listing misses of the tasks that were there when it began
\* are at most the ids it was given as tokens (l.86-93), insertions or not.
MissesOnlyTokens == pc["lister"] = "done" => present \ ToSet(listed) \subseteq tokens

\* What the course promises of page tokens: following them to the end gives
\* every task that was there when the listing began.
ListingComplete == pc["lister"] = "done" => present \subseteq ToSet(listed)
=============================================================================
