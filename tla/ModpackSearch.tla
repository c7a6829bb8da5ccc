--------------------------- MODULE ModpackSearch ---------------------------
(***************************************************************************)
(* The search for modpacks: a text, filters and a page make the key of a   *)
(* query.  The answers are kept by their keys, and arrive in any order;    *)
(* until that of a key is there, the last one stays on display             *)
(* (keepPreviousData), with its pages to choose from.  Modrinth is taken   *)
(* to answer the same whenever it is asked the same.                       *)
(***************************************************************************)
EXTENDS Undefined, Integers, Selection, SequencesExt

CONSTANTS
  Terms,           \* what is typed into the search
  FilterValues,    \* [gameVersions |-> game versions, loaders |-> modloaders] that are listed
  TotalHits(_),    \* of a text and sets of versions and loaders (Queries): how many modpacks there are
  PageSize,        \* ModrinthAPI.PageSize
  MaxChoices       \* bound: changes of the text, filters, page or tab, after which there are none

Queries ==
  [text : Terms \cup {""}, gameVersions : SUBSET FilterValues.gameVersions, loaders : SUBSET FilterValues.loaders]

ASSUME SearchAssumption ==
  PageSize \in Nat \ {0} /\ MaxChoices \in Nat /\ \A query \in Queries : TotalHits(query) \in Nat

VARIABLES
  mounted,     \* the tab is on the page
  key,         \* search, gameVersions, loaders and page: the key of the query
  asked, answered, failed,   \* the keys that are asked for, those whose answer is kept, or their error
  previous,    \* the key whose answer was on display last
  choices, leaped   \* history: choices so far; the page was chosen among those of other filters

searchVars == <<mounted, key, asked, answered, failed, previous, choices, leaped>>

NoFilters == [text |-> "", gameVersions |-> <<>>, loaders |-> <<>>, page |-> 1]

SearchInit ==
  /\ mounted = TRUE /\ key = NoFilters
  /\ asked = {NoFilters} /\ answered = {} /\ failed = {}
  /\ previous = None /\ choices = 0 /\ leaped = FALSE

-----------------------------------------------------------------------------
(* Values of one filter are alternatives: their order does not matter.     *)
buildFacets(k) == [gameVersions |-> ToSet(k.gameVersions), loaders |-> ToSet(k.loaders)]
total_hits(k) ==
  LET facets == buildFacets(k)
  IN  TotalHits([text |-> k.text, gameVersions |-> facets.gameVersions, loaders |-> facets.loaders])
hits(k) == Max({0, Min({PageSize, total_hits(k) - (k.page - 1) * PageSize})})

(* What is on display: the answer to this key or to the last one, or an    *)
(* error, or that it is loading.                                           *)
data == IF key \in answered THEN key ELSE IF key \in failed THEN None ELSE previous
PagesOf(k) == (total_hits(k) + PageSize - 1) \div PageSize
totalPages == IF data = None THEN 0 ELSE PagesOf(data)

-----------------------------------------------------------------------------
Chosen == mounted /\ choices < MaxChoices /\ choices' = choices + 1

(* A key without an answer is asked for, unless it is already.             *)
Ask(k) ==
  /\ key' = k
  /\ IF k \in answered
     THEN previous' = k /\ UNCHANGED <<asked, failed>>
     ELSE /\ asked' = asked \cup {k} /\ failed' = failed \ {k}
          /\ UNCHANGED previous

handleSearch(text) ==
  /\ Chosen /\ Ask([key EXCEPT !.text = text, !.page = 1])
  /\ leaped' = FALSE
  /\ UNCHANGED <<mounted, answered>>

toggleInside(list, value) ==
  IF value \in ToSet(list) THEN Selected(list, ToSet(list) \ {value}) ELSE Append(list, value)

Toggle(toggled) ==
  /\ Chosen /\ Ask(toggled)
  /\ leaped' = FALSE
  /\ UNCHANGED <<mounted, answered>>

handleGameVersion(version) == Toggle([key EXCEPT !.page = 1, !.gameVersions = toggleInside(key.gameVersions, version)])
handleLoader(loader) == Toggle([key EXCEPT !.page = 1, !.loaders = toggleInside(key.loaders, loader)])

(* Pagination: the pages that have a button, and the two beside this one.  *)
Siblings == 2
pages ==
  IF totalPages <= 1 THEN {}
  ELSE {1, totalPages} \cup (Max({2, key.page - Siblings}) .. Min({totalPages - 1, key.page + Siblings}))

(* It is there when there is a modpack on display.                         *)
handlePage(selected) ==
  /\ data # None /\ hits(data) > 0 /\ pages # {}
  /\ selected \in pages \cup {key.page - 1, key.page + 1}
  /\ selected # key.page /\ selected \in 1 .. totalPages
  /\ Chosen /\ Ask([key EXCEPT !.page = selected])
  /\ leaped' = (data # [key EXCEPT !.page = data.page])
  /\ UNCHANGED <<mounted, answered>>

-----------------------------------------------------------------------------
(* An answer is kept, whatever is on display by now.                       *)
Answered(k) ==
  /\ k \in asked /\ asked' = asked \ {k}
  /\ answered' = answered \cup {k}
  /\ previous' = IF mounted /\ k = key THEN k ELSE previous
  /\ UNCHANGED <<mounted, key, failed, choices, leaped>>

(* Modrinth is out of reach, refuses, or answers something else.           *)
SearchFails(k) ==
  /\ k \in asked /\ asked' = asked \ {k}
  /\ failed' = failed \cup {k}
  /\ UNCHANGED <<mounted, key, answered, previous, choices, leaped>>

(* The window has the focus again, or the network is back.                 *)
Refetch ==
  /\ mounted /\ key \in failed /\ choices < MaxChoices
  /\ Ask(key) /\ choices' = choices + 1
  /\ UNCHANGED <<mounted, answered, leaped>>

(* Answers and errors are dropped after some minutes without use.          *)
Collect(k) ==
  /\ k \in (answered \cup failed) \ asked /\ ~(mounted /\ k = key)
  /\ answered' = answered \ {k} /\ failed' = failed \ {k}
  /\ UNCHANGED <<mounted, key, asked, previous, choices, leaped>>

LeaveSearch ==
  /\ Chosen /\ mounted' = FALSE
  /\ UNCHANGED <<key, asked, answered, failed, previous, leaped>>

(* The tab begins anew, with the answers that are kept.                    *)
OpenSearch ==
  /\ ~mounted /\ mounted' = TRUE
  /\ key' = NoFilters /\ leaped' = FALSE
  /\ previous' = IF NoFilters \in answered THEN NoFilters ELSE None
  /\ asked' = asked \cup ({NoFilters} \ answered) /\ failed' = failed \ {NoFilters}
  /\ UNCHANGED <<answered, choices>>

SearchNext ==
  \/ \E text \in Terms : handleSearch(text)
  \/ \E version \in FilterValues.gameVersions : handleGameVersion(version)
  \/ \E loader \in FilterValues.loaders : handleLoader(loader)
  \/ \E selected \in 1 .. totalPages : handlePage(selected)
  \/ \E k \in asked : Answered(k) \/ SearchFails(k)
  \/ Refetch
  \/ \E k \in answered \cup failed : Collect(k)
  \/ LeaveSearch \/ OpenSearch

-----------------------------------------------------------------------------
SearchTypeOK ==
  /\ mounted \in BOOLEAN /\ key.page \in Nat \ {0} /\ key.text \in Terms \cup {""}
  /\ answered \cap asked = {} /\ answered \cap failed = {} /\ asked \cap failed = {}
  /\ choices \in 0 .. MaxChoices

(* That there is no modpack is told only of filters without one, however   *)
(* answers, filters and pages have overtaken one another; unless the page  *)
(* was chosen from the ones of other filters, still on display             *)
(* (keepPreviousData, ModrinthInstance.vue, Pagination.vue).               *)
EmptyMeansNone == mounted /\ data = key /\ ~leaped /\ hits(key) = 0 => total_hits(key) = 0

(* What is on display is of this key, or its answer or error is to come.   *)
NothingIsStuck == mounted => key \in answered \cup failed \cup asked

SearchAsFiltered == EmptyMeansNone /\ NothingIsStuck
=============================================================================
