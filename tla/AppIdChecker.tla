---------------------------- MODULE AppIdChecker ----------------------------
(***************************************************************************)
(* The XhrAppIdChecker of appid.js over the XhrTextFetcher of              *)
(* textfetcher.js: whether every app id of a request lists the origin that *)
(* uses it.  The lists are fetched at the same time, and a fetch that      *)
(* fails is made again until the time is up.                               *)
(***************************************************************************)
EXTENDS FiniteSets

CONSTANT AppIds         \* the distinct app ids of the request

VARIABLES
    fetching,       \* app ids whose XMLHttpRequest is under way
    again,          \* whether the number of repeated fetches of each is odd
    refused,        \* app ids whose check resolved to false
    checkTimer      \* the checker's timer_ is not expired

checkerVars == <<fetching, again, refused, checkTimer>>

InitChecker ==
    /\ fetching = {} /\ refused = {}
    /\ again = [a \in AppIds |-> FALSE]
    /\ checkTimer = FALSE

(***************************************************************************)
(* checkAppIds, with a clone of the caller's timer.  same: the app ids     *)
(* that are the origin itself; bad: those that are not fetched at all (no  *)
(* URL, or http where it is not allowed), which list nobody.               *)
(***************************************************************************)
CheckAppIds(same, bad, armed) ==
    /\ fetching' = AppIds \ (same \cup bad)
    /\ refused' = bad \ same
    /\ checkTimer' = armed
    /\ UNCHANGED again

(***************************************************************************)
(* A list arrives, with or without the origin; text that is not a list     *)
(* counts as an empty one (getOriginsFromJson).                            *)
(***************************************************************************)
Fetched(a, listed) ==
    /\ a \in fetching
    /\ fetching' = fetching \ {a}
    /\ refused' = IF listed THEN refused ELSE refused \cup {a}
    /\ UNCHANGED <<again, checkTimer>>

\* Seeded fault: the fetch is repeated whatever the time.
FetchFailedForever(a, rc) ==
    /\ a \in fetching
    /\ \/ /\ rc = "other"
          /\ again' = [again EXCEPT ![a] = ~@]
          /\ UNCHANGED <<fetching, refused>>
       \/ /\ rc = "4xx"
          /\ fetching' = fetching \ {a}
          /\ refused' = refused \cup {a}
          /\ UNCHANGED again
    /\ UNCHANGED checkTimer

(***************************************************************************)
(* The fetch fails.  A network error counts as 404, since onerror comes    *)
(* before onloadend, so "other" is a status like 500.                      *)
(***************************************************************************)
FetchFailed(a, rc) ==
    /\ a \in fetching
    /\ \/ /\ rc = "other" /\ checkTimer
          /\ again' = [again EXCEPT ![a] = ~@]
          /\ UNCHANGED <<fetching, refused>>
       \/ /\ rc = "4xx" \/ ~checkTimer
          /\ fetching' = fetching \ {a}
          /\ refused' = refused \cup {a}
          /\ UNCHANGED again
    /\ UNCHANGED checkTimer

FetchEnds(a) ==
    \/ \E listed \in BOOLEAN : Fetched(a, listed)
    \/ \E rc \in {"4xx", "other"} : FetchFailed(a, rc)

CheckTimerExpires ==
    /\ checkTimer
    /\ checkTimer' = FALSE
    /\ UNCHANGED <<fetching, again, refused>>

(***************************************************************************)
(* What the promise of Promise.all resolves to, once it does.              *)
(***************************************************************************)
AllChecked == fetching = {}
AllListed == refused = {}
=============================================================================
