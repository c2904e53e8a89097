--------------------------- MODULE CommunityBrowse ---------------------------
(***************************************************************************)
(* The list of the community page (pages/community): a status, a search    *)
(* word and a page whose URL and search box move apart, the last list      *)
(* shown in place of one not read yet, items that leave it as they are     *)
(* reviewed, and the effect that goes back from a page that emptied.  What *)
(* a review and its undo do is CommunityModeration.  Kinds of content and  *)
(* React Query's cache of pages visited before are left out.               *)
(***************************************************************************)
EXTENDS Integers, FiniteSets

CONSTANTS
  MaxItem,       \* items are 1..MaxItem, in the list's order
  Hits,          \* those the search word finds
  Chips,         \* the statuses the admin switches between
  None,
  PageSize,
  MaxWire,       \* bound: reviews under way
  MaxElsewhere   \* bound: changes by authors and other moderators

BrowseAssumption ==
  /\ MaxItem \in Nat /\ Hits \subseteq 1..MaxItem /\ PageSize \in Nat \ {0}
  /\ Chips \subseteq {"pending", "approved", "removed", "all"}

VARIABLES
  moderation,    \* the table: "pending", "approved", "removed" or "gone"
  status, page,  \* the URL
  typed, q,      \* the word is in the search box; it is applied
  timer,         \* the pause after typing is not over
  list,          \* the last list read: [key, items, total], or None
  fell,          \* the lastPage the effect ran for
  calls,         \* reviews under way: [to, item, done]
  elsewhere

browseVars == <<moderation, status, page, typed, q, timer, list, fell, calls, elsewhere>>
url == <<status, page>>
search == <<typed, q, timer>>
Items == 1..MaxItem

\* A page of a list and the number of items in all of it, in one snapshot.
Filtered(key) ==
  {i \in Items : /\ moderation[i] # "gone" /\ key.status \in {"all", moderation[i]}
                 /\ key.q => i \in Hits}
Listed(key) ==
  LET all == Filtered(key) IN
  [key |-> key, total |-> Cardinality(all),
   items |-> {i \in all : Cardinality({j \in all : j < i}) \div PageSize = key.page - 1}]

Key == [status |-> status, page |-> page, q |-> q]
Pages == IF list.total = 0 THEN 1 ELSE (list.total + PageSize - 1) \div PageSize
LastPage == IF list # None /\ list.key = Key /\ list.items = {} /\ page > 1 THEN Pages ELSE None

\* Any page a link names.
BrowseInit ==
  /\ moderation \in [Items -> {"pending", "approved"}]
  /\ status = "pending" /\ page \in 1..(MaxItem + 1)
  /\ typed = FALSE /\ q = FALSE /\ timer = FALSE
  /\ list = None /\ fell = None /\ calls = {} /\ elsewhere = 0

----------------------------------------------------------------------------
Read ==
  /\ list # Listed(Key) /\ list' = Listed(Key)
  /\ UNCHANGED <<moderation, url, search, fell, calls, elsewhere>>

\* The effect runs after a render in which lastPage changed.
Rendered == LastPage = fell
FallBack ==
  /\ ~Rendered /\ fell' = LastPage
  /\ page' = IF LastPage = None THEN page ELSE LastPage
  /\ UNCHANGED <<moderation, status, search, list, calls, elsewhere>>

SetStatus(s) ==
  /\ Rendered /\ s # status /\ status' = s /\ page' = 1
  /\ UNCHANGED <<moderation, search, list, fell, calls, elsewhere>>

\* The buttons follow the last list read, of whatever page that is.
Turn(to) ==
  /\ Rendered /\ list # None /\ list.total > PageSize
  /\ \/ to = page - 1 /\ page > 1
     \/ to = page + 1 /\ list.total > list.key.page * PageSize
  /\ to <= MaxItem + 1 /\ page' = to
  /\ UNCHANGED <<moderation, status, search, list, fell, calls, elsewhere>>

Type ==
  /\ typed' = ~typed /\ timer' = TRUE
  /\ UNCHANGED <<moderation, url, q, list, fell, calls, elsewhere>>

\* The pause is over: what is applied already is not applied again.
Applied ==
  /\ timer /\ timer' = FALSE /\ q' = typed
  /\ page' = IF q = typed THEN page ELSE 1
  /\ UNCHANGED <<moderation, status, typed, list, fell, calls, elsewhere>>

----------------------------------------------------------------------------
\* A card's buttons: approve, remove (once confirmed) or restore.
Review(i, to) ==
  /\ Rendered /\ list # None /\ i \in list.items
  /\ Cardinality(calls) < MaxWire /\ calls' = calls \cup {[to |-> to, item |-> i, done |-> FALSE]}
  /\ UNCHANGED <<moderation, url, search, list, fell, elsewhere>>

Serve(c) ==
  /\ ~c.done /\ calls' = (calls \ {c}) \cup {[c EXCEPT !.done = TRUE]}
  /\ moderation' = IF moderation[c.item] = "gone" THEN moderation
                   ELSE [moderation EXCEPT ![c.item] = c.to]
  /\ UNCHANGED <<url, search, list, fell, elsewhere>>

\* The answer, or a failure before or after the server acted: the list is
\* refetched, which may fail as well.
Answered(c) ==
  /\ calls' = calls \ {c} /\ list' \in {list, Listed(Key)}
  /\ UNCHANGED <<moderation, url, search, fell, elsewhere>>

Elsewhere(i, state) ==
  /\ elsewhere < MaxElsewhere /\ elsewhere' = elsewhere + 1
  /\ state # moderation[i] /\ moderation' = [moderation EXCEPT ![i] = state]
  /\ UNCHANGED <<url, search, list, fell, calls>>

BrowseNext ==
  \/ Read \/ FallBack \/ Type \/ Applied
  \/ \E s \in Chips : SetStatus(s)
  \/ \E to \in {page - 1, page + 1} : Turn(to)
  \/ \E i \in Items :
       \/ \E to \in {"pending", "approved", "removed"} : Review(i, to)
       \/ \E state \in {"pending", "gone"} : Elsewhere(i, state)
  \/ \E c \in calls : Serve(c) \/ Answered(c)

BrowseSpec == BrowseInit /\ [][BrowseNext]_browseVars

----------------------------------------------------------------------------
\* No one is left on a page past the last: once the page's own list is on screen
\* and the effect has run, an empty page is the first one, whatever reviews, other
\* moderators, searches and links did meanwhile ("A page that emptied after a
\* review action (or a stale ?page= link) falls back", index.tsx:103).
NeverPastTheLast ==
  list # None /\ list.key = Key /\ Rendered /\ list.items = {} => page = 1
=============================================================================
