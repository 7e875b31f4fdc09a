------------------------------ MODULE TokenApi ------------------------------
(***************************************************************************)
(* The two lists of packages/token, /token-prices/list and /token-maps/    *)
(* list: clients walk them page by page with a cursor, possibly filtered,  *)
(* through the response cache of packages/shared, while the lists change.  *)
(*                                                                         *)
(* A token is a number: documents are listed by their names, in ascending  *)
(* order, and prices as the file has them, which need not be CoinGecko's   *)
(* order, here the ascending one.  A cursor is the address of a contract,  *)
(* of which each token has its own: coins in the file, and ERC20 tokens,   *)
(* as no others get a document.                                            *)
(***************************************************************************)
EXTENDS Lists

CONSTANTS
    ApiTokens,    \* the tokens that may be listed, positive numbers
    Clients,      \* clients that walk a list
    Filters,      \* contractAddresses or tokenIndexes of their queries
    PerPages,     \* perPage of their queries; 0 if they give none
    DocLimit,     \* FIRESTORE_MAX_BATCH_SIZE
    CoinsPerBatch, \* MARKET_PRICE_PER_PAGE
    NoPage        \* what the cache holds of a query it does not know

TokenApiAssumption ==
    /\ ApiTokens \subseteq Nat \ {0} /\ IsFiniteSet(ApiTokens)
    /\ Filters \subseteq Seq(ApiTokens)
    /\ PerPages \subseteq Nat
    /\ DocLimit \in Nat \ {0}
    /\ CoinsPerBatch \in Nat \ {0}

VARIABLES
    endpoint,  \* "prices" or "maps"
    tokenList, \* the documents by name, or the prices in memory
    removed,   \* history: whether a new file left a token out
    moved,     \* history: whether a new file changed the order of two tokens
    pages,     \* the cached responses
    client     \* the walks

vars == <<endpoint, tokenList, removed, moved, pages, client>>

NoQuery == [filter |-> <<>>, cursor |-> 0, perPage |-> 0]
NoWalk == [pc |-> "idle", query |-> NoQuery, docs |-> <<>>, from |-> {}, page |-> NoPage,
           seen |-> <<>>, since |-> ApiTokens]

\* getCacheKey: of a parameter that is given more than once, only the first
\* value is part of the key.
CacheKey(query) ==
    [filter |-> IF query.filter = <<>> THEN 0 ELSE query.filter[1],
     cursor |-> query.cursor, perPage |-> query.perPage]

CacheKeys == [filter : ApiTokens \cup {0}, cursor : ApiTokens \cup {0}, perPage : PerPages]

Init ==
    /\ endpoint \in {"prices", "maps"}
    /\ tokenList = <<>>
    /\ removed = FALSE /\ moved = FALSE
    /\ pages = [k \in CacheKeys |-> NoPage]
    /\ client = [c \in Clients |-> NoWalk]

-----------------------------------------------------------------------------
(* Pages.                                                                  *)

\* Mutant: the cursor itself is on the next page again.
StartIndex_AtCursor(tokens, cursor) ==
    IF cursor # 0 /\ \E i \in DOMAIN tokens : tokens[i] = cursor
      THEN (CHOOSE i \in DOMAIN tokens : tokens[i] = cursor) - 1 ELSE 0

\* calculatePaginationIndices, with indexes from 0: a cursor that is not in
\* the list starts from the front.
StartIndex(tokens, cursor) ==
    IF cursor # 0 /\ \E i \in DOMAIN tokens : tokens[i] = cursor
      THEN Min({i \in DOMAIN tokens : tokens[i] = cursor}) ELSE 0

\* getNextCursor
NextCursor(items, total, start, perPage) ==
    IF Len(items) = perPage /\ start + perPage < total THEN Last(items) ELSE 0

\* The rest of `list` of both services, from the tokens to the response.
PageOf(tokens, query, from) ==
    LET start == StartIndex(tokens, query.cursor)
        items == IF query.perPage = 0 THEN tokens
                 ELSE SubSeq(tokens, start + 1, Min({start + query.perPage, Len(tokens)}))
    IN  [items |-> items,
         next |-> IF query.perPage = 0 THEN 0 ELSE NextCursor(items, Len(tokens), start, query.perPage),
         from |-> from]

\* getFilteredTokens of the prices: in the order of the file or the filter.
FilteredPrices(filter) == IF filter = <<>> THEN tokenList ELSE Among(filter, ToSet(tokenList))

\* fetchTokenMaps: the documents a query of Firestore finds.
MatchingDocs(filter) == IF filter = <<>> THEN ToSet(tokenList) ELSE ToSet(tokenList) \cap ToSet(filter)

-----------------------------------------------------------------------------
(* The lists change: token-map-register adds documents, and a sync writes  *)
(* a new file.                                                             *)

AddDocument ==
    /\ endpoint = "maps"
    /\ \E t \in ApiTokens \ ToSet(tokenList) : tokenList' = Ascending(ToSet(tokenList) \cup {t})
    /\ UNCHANGED <<endpoint, removed, moved, pages, client>>

\* performJob writes batch after batch of CoinGecko's list, `now`, and
\* processMarketBatch those coins of a batch first whose decimals it does
\* not know: x comes before y.
WrittenBefore(now, known, x, y) ==
    LET batch(t) == Cardinality({u \in now : u < t}) \div CoinsPerBatch
    IN  \/ batch(x) < batch(y)
        \/ batch(x) = batch(y) /\ x \notin known /\ y \in known
        \/ batch(x) = batch(y) /\ (x \in known <=> y \in known) /\ x < y

\* x is in front of y.
Precedes(tokens, x, y) == \E i, j \in DOMAIN tokens : i < j /\ tokens[i] = x /\ tokens[j] = y

SameOrder(old, new) ==
    \A x, y \in ToSet(old) \cap ToSet(new) : Precedes(old, x, y) <=> Precedes(new, x, y)

\* The next file the process reads; Ethereum keeps it from being empty.  The
\* known coins are those of the file the sync read before it, which this
\* process may never have read, or none if that failed.  Bound: no files
\* after one that leaves a token out.
NewFile ==
    /\ endpoint = "prices"
    /\ ~removed
    /\ \E now \in SUBSET ApiTokens \ {{}}, known \in SUBSET ApiTokens :
         \E new \in [1..Cardinality(now) -> now] :
           /\ \A i, j \in DOMAIN new : i < j => WrittenBefore(now, known, new[i], new[j])
           /\ tokenList' = new
           /\ removed' = (ToSet(tokenList) \ ToSet(new) # {})
           /\ moved' = (moved \/ ~SameOrder(tokenList, new))
    /\ UNCHANGED <<endpoint, pages, client>>

Expire ==
    /\ \E k \in CacheKeys : pages[k] # NoPage /\ pages' = [pages EXCEPT ![k] = NoPage]
    /\ UNCHANGED <<endpoint, tokenList, removed, moved, client>>

-----------------------------------------------------------------------------
(* A walk.                                                                 *)

StartWalk(c) ==
    /\ client[c].pc \in {"idle", "done"}
    /\ \E filter \in Filters, perPage \in PerPages :
         client' = [client EXCEPT ![c] =
           [NoWalk EXCEPT !.pc = "asking",
                          !.query = [filter |-> filter, cursor |-> 0, perPage |-> perPage]]]
    /\ UNCHANGED <<endpoint, tokenList, removed, moved, pages>>

\* No new file got in the way of walks with this filter.
Steady(filter) == ~removed /\ (filter = <<>> => ~moved)

\* The client goes on with the page's cursor.
Receive(walk, page) ==
    [walk EXCEPT !.pc = IF page.next = 0 THEN "done" ELSE "asking",
                 !.query.cursor = page.next,
                 !.page = NoPage, !.docs = <<>>, !.from = {},
                 !.seen = IF Steady(walk.query.filter) THEN @ \o page.items ELSE <<>>,
                 !.since = IF Steady(walk.query.filter) THEN @ \cap page.from ELSE {}]

\* cacheMiddleware finds a response.
Hit(c) ==
    LET page == pages[CacheKey(client[c].query)]
    IN  /\ client[c].pc = "asking"
        /\ page # NoPage
        /\ client' = [client EXCEPT ![c] = Receive(@, page)]
        /\ UNCHANGED <<endpoint, tokenList, removed, moved, pages>>

\* It does not, and the controllers parse the query.
MissPage(c) ==
    /\ client[c].pc = "asking"
    /\ pages[CacheKey(client[c].query)] = NoPage
    /\ client' = [client EXCEPT ![c].pc = "listing", ![c].from = ToSet(tokenList)]
    /\ UNCHANGED <<endpoint, tokenList, removed, moved, pages>>

\* list of tokenPrices.service
ListPrices(c) ==
    /\ client[c].pc = "listing"
    /\ endpoint = "prices"
    /\ client' = [client EXCEPT ![c].pc = "answered",
         ![c].page = PageOf(FilteredPrices(client[c].query.filter), client[c].query, ToSet(tokenList))]
    /\ UNCHANGED <<endpoint, tokenList, removed, moved, pages>>

\* One turn of the loop of TokenMap.list; after the last one the page is cut
\* by list of tokenMaps.service.
ListMaps(c) ==
    LET walk == client[c]
        after == {t \in MatchingDocs(walk.query.filter) : walk.docs = <<>> \/ t > Last(walk.docs)}
        found == Ascending(after)
        docs == walk.docs \o SubSeq(found, 1, Min({DocLimit, Len(found)}))
    IN  /\ walk.pc = "listing"
        /\ endpoint = "maps"
        /\ client' = [client EXCEPT ![c] =
             IF Len(found) < DocLimit
               THEN [walk EXCEPT !.pc = "answered", !.page = PageOf(docs, walk.query, walk.from)]
               ELSE [walk EXCEPT !.docs = docs]]
        /\ UNCHANGED <<endpoint, tokenList, removed, moved, pages>>

\* cacheMiddleware stores the response before it returns it.
StorePage(c) ==
    /\ client[c].pc = "answered"
    /\ pages' = [pages EXCEPT ![CacheKey(client[c].query)] = client[c].page]
    /\ client' = [client EXCEPT ![c] = Receive(@, client[c].page)]
    /\ UNCHANGED <<endpoint, tokenList, removed, moved>>

Next ==
    \/ AddDocument \/ NewFile \/ Expire
    \/ \E c \in Clients :
         StartWalk(c) \/ Hit(c) \/ MissPage(c) \/ ListPrices(c) \/ ListMaps(c) \/ StorePage(c)

Spec == Init /\ [][Next]_vars

-----------------------------------------------------------------------------
(* Properties.                                                             *)

\* Type invariant of the state above.
TypeOK ==
    /\ endpoint \in {"prices", "maps"}
    /\ ToSet(tokenList) \subseteq ApiTokens /\ IsInjective(tokenList)
    /\ {removed, moved} \subseteq BOOLEAN
    /\ \A k \in CacheKeys : pages[k] = NoPage \/ ToSet(pages[k].items) \subseteq ApiTokens
    /\ \A c \in Clients : client[c].pc \in {"idle", "asking", "listing", "answered", "done"}

Wanted(filter) == IF filter = <<>> THEN ApiTokens ELSE ToSet(filter)

\* A walk sees no token twice, and at its end has seen all that were listed
\* when the oldest of its pages was made: pages of different age, from the
\* cache or made while tokens come, leave no gap and do not overlap.  Only a
\* new file can break this: one that leaves tokens out, for a cursor that is
\* gone starts from the front, and, unless the walk has a filter, one that
\* has tokens in another order, as it does when a coin's decimals come to be
\* known.
WalkComplete ==
    \A c \in Clients : Steady(client[c].query.filter) =>
        /\ IsInjective(client[c].seen)
        /\ client[c].pc = "done" =>
             client[c].since \cap Wanted(client[c].query.filter) \subseteq ToSet(client[c].seen)
        /\ endpoint = "maps" => IsAscending(client[c].seen)
=============================================================================
