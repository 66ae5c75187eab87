--------------------------- MODULE RequestDeadline ---------------------------
(***************************************************************************)
(* The time a request takes.  A handler without a fresh list waits for the *)
(* fetch of the year, page after page with its retries, and then answers;  *)
(* the server cuts the connection of an answer that is written WriteTimeout*)
(* after the request was read.  A client may leave at any time and ask     *)
(* again: the fetch goes on without it (context.WithoutCancel), and the    *)
(* next request joins it.                                                  *)
(*                                                                         *)
(* One year and one client's requests; those it left behind only wait.     *)
(* Times are in seconds.  What an attempt waits for the rate limiter is    *)
(* part of its duration; Retry-After, which has no bound, is left out.     *)
(***************************************************************************)
EXTENDS Integers

CONSTANTS
    Pages,         \* pages of the year's list
    MaxRetry,      \* maxRetry
    Durations,     \* how long an attempt may take until it ends
    WriteTimeout   \* of the http.Server

ASSUME DeadlineAssumption ==
    /\ Pages \in Nat \ {0} /\ MaxRetry \in Nat \ {0}
    /\ Durations \subseteq Nat /\ WriteTimeout \in Nat

VARIABLES
    row,           \* the cached list: "none", "stale" or "fresh"
    up,            \* AniList answers
    page, attempt, \* of the fetch in flight; page 0 if there is none
    waiting,       \* the client waits for a handler
    held,          \* the handler has a stale list to answer with
    clock,         \* time since the client's request, up to WriteTimeout + 1
    answer         \* what was last written to it, and whether it got there

vars == <<row, up, page, attempt, waiting, held, clock, answer>>

Answers == [what : {"nothing", "empty", "list"}, sent : BOOLEAN]

Init ==
    /\ row \in {"none", "stale"} /\ up \in BOOLEAN
    /\ page = 0 /\ attempt = 1
    /\ waiting = FALSE /\ held = FALSE /\ clock = 0
    /\ answer = [what |-> "nothing", sent |-> FALSE]

-----------------------------------------------------------------------------
\* A fresh list is answered at once; otherwise FetchAndStore begins or joins a flight.
AskFresh ==
    /\ ~waiting /\ row = "fresh"
    /\ answer' = [what |-> "list", sent |-> TRUE]
    /\ UNCHANGED <<row, up, page, attempt, waiting, held, clock>>

AskAndWait ==
    /\ ~waiting /\ row # "fresh"
    /\ waiting' = TRUE /\ held' = (row = "stale") /\ clock' = 0
    /\ IF page = 0 THEN page' = 1 /\ attempt' = 1 ELSE UNCHANGED <<page, attempt>>
    /\ answer' = [what |-> "nothing", sent |-> FALSE]
    /\ UNCHANGED <<row, up>>

\* Changed form of Leave: the fetch runs under the request's own context.
LeaveAndCancel ==
    /\ waiting
    /\ waiting' = FALSE /\ page' = 0
    /\ UNCHANGED <<row, up, attempt, held, clock, answer>>

\* The client closes its connection; the handler and its fetch go on.
Leave ==
    /\ waiting
    /\ waiting' = FALSE
    /\ UNCHANGED <<row, up, page, attempt, held, clock, answer>>

After(seconds) ==
    IF clock + seconds > WriteTimeout THEN WriteTimeout + 1 ELSE clock + seconds

\* 2^attempt seconds, a quarter shorter or longer.
Backoffs == {(3 * 2 ^ attempt) \div 4, (5 * 2 ^ attempt) \div 4}

\* The flight is over, and the handler of a client that still waits writes its answer.
Ends(fetched, d) ==
    /\ page' = 0
    /\ row' = IF fetched THEN "fresh" ELSE row
    /\ clock' = After(d)
    /\ waiting' = FALSE
    /\ answer' = IF ~waiting THEN answer
                 ELSE [what |-> IF fetched \/ held THEN "list" ELSE "empty",
                       sent |-> clock' <= WriteTimeout]
    /\ UNCHANGED <<up, attempt, held>>

PageFetched(d) ==
    /\ page > 0
    /\ IF page = Pages THEN Ends(TRUE, d)
       ELSE /\ page' = page + 1 /\ attempt' = 1 /\ clock' = After(d)
            /\ UNCHANGED <<row, up, waiting, held, answer>>

\* The page is asked for again after a backoff, or the fetch fails.
AttemptFails(d) ==
    /\ page > 0 /\ ~up
    /\ IF attempt = MaxRetry THEN Ends(FALSE, d)
       ELSE \E b \in Backoffs :
                /\ attempt' = attempt + 1 /\ clock' = After(d + b)
                /\ UNCHANGED <<row, up, page, waiting, held, answer>>

\* An error that is not retried, or SetYear's.
FetchFails(d) == page > 0 /\ ~up /\ Ends(FALSE, d)

FetchStep == \E d \in Durations : PageFetched(d) \/ AttemptFails(d) \/ FetchFails(d)

\* AniList and SQLite fail, and work again.
Outage == up' \in BOOLEAN \ {up} /\ UNCHANGED <<row, page, attempt, waiting, held, clock, answer>>

\* The list gets old, or is pruned or cleared; not before the client has come for it,
\* which asks every few hours.
Age ==
    /\ row = "fresh" /\ answer.what = "list" /\ answer.sent
    /\ row' \in {"stale", "none"}
    /\ UNCHANGED <<up, page, attempt, waiting, held, clock, answer>>

Next == AskFresh \/ AskAndWait \/ Leave \/ FetchStep \/ Outage \/ Age

Spec == Init /\ [][Next]_vars

\* The client keeps asking, and the attempts of a fetch have timeouts.
FairSpec == Spec /\ WF_vars(AskFresh \/ AskAndWait) /\ WF_vars(FetchStep)

-----------------------------------------------------------------------------
\* A client that keeps asking is served the list again and again once AniList answers,
\* however slow its pages are and however soon the client gives up each time: what its
\* earlier requests began is not lost (handleList, main.go:157, 193).
PersistentServed ==
    <>[]up => []<>(answer = [what |-> "list", sent |-> TRUE])
=============================================================================
