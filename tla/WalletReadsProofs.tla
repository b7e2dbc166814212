--------------------------- MODULE WalletReadsProofs ---------------------------
(***************************************************************************)
(* Theorems about the readers of WalletReads, for any number of clients,   *)
(* auditors, wallets and entries, any limits and any clocks.  First what   *)
(* the page operators do with a finite set of sort keys and the invariant  *)
(* of the clients' cursors; then what sums of ledgers do and the invariant *)
(* of the audits.                                                          *)
(***************************************************************************)
EXTENDS WalletReads, FiniteSetTheorems, SequenceTheorems, TLAPS

-------------------------------------------------------------------------------
(* The order of the entries                                                *)

(* Sort keys are linearly ordered, also when their times are equal.        *)
LEMMA BelowIsLinear ==
  /\ \A e \in Keys : ~Below(e, e)
  /\ \A e, f, g \in Keys : Below(e, f) /\ Below(f, g) => Below(e, g)
  /\ \A e, f \in Keys : e # f => Below(e, f) \/ Below(f, e)
<1>1. \A e \in Keys : e.at \in Int /\ e.id \in Int
  BY ReadsAssumption DEF Keys
<1>2. \A e, f \in Keys : e.at = f.at /\ e.id = f.id => e = f
  BY DEF Keys
<1> QED BY <1>1, <1>2 DEF Below

(* A nonempty family of subsets of a finite set has a minimal member.      *)
LEMMA MinimalMember ==
  ASSUME NEW S, IsFiniteSet(S), NEW F \in SUBSET (SUBSET S), F # {}
  PROVE  \E X \in F : \A Y \in F : Y \subseteq X => Y = X
<1>1. IsWellFoundedOn(StrictSubsetOrdering(S), FiniteSubsetsOf(S))
  BY FS_StrictSubsetOrderingWellFounded
<1>2. F \subseteq FiniteSubsetsOf(S)
  BY FS_FiniteSubsetsOfFinite
<1>3. PICK X \in F : \A Y \in F : <<Y, X>> \notin StrictSubsetOrdering(S)
  BY <1>1, <1>2, WFMin
<1>4. ASSUME NEW Y \in F, Y \subseteq X PROVE Y = X
  <2>1. <<Y, X>> \in (SUBSET S) \X (SUBSET S) BY <1>2
  <2> QED BY <1>3, <1>4, <2>1 DEF StrictSubsetOrdering
<1> QED BY <1>4

(* The entries of S above e.                                               *)
Above(S, e) == {f \in S : Below(e, f)}

(* Of the elements of T \subseteq S, one has the others of T below it.     *)
LEMMA HighestExists ==
  ASSUME NEW S \in SUBSET Keys, IsFiniteSet(S), NEW T \in SUBSET S, T # {}
  PROVE  \E e \in T : \A f \in T : ~Below(e, f)
<1> DEFINE F == {Above(S, e) : e \in T}
<1>1. F \in SUBSET (SUBSET S) /\ F # {}
  BY DEF Above
<1>2. PICK X \in F : \A Y \in F : Y \subseteq X => Y = X
  <2> HIDE DEF F
  <2> QED BY <1>1, MinimalMember
<1>3. PICK e \in T : X = Above(S, e)
  BY <1>2
<1>4. ASSUME NEW f \in T, Below(e, f) PROVE FALSE
  <2>1. Above(S, f) \subseteq Above(S, e)
    BY <1>4, BelowIsLinear DEF Above
  <2>2. Above(S, f) = Above(S, e)
    BY <1>2, <1>3, <2>1
  <2>3. f \in Above(S, e) BY <1>4 DEF Above
  <2>4. f \notin Above(S, f) BY BelowIsLinear DEF Above
  <2> QED BY <2>2, <2>3, <2>4
<1> QED BY <1>4

(* The cursor of a page is its lowest entry.                               *)
LEMMA LowestIsLowest ==
  ASSUME NEW S \in SUBSET Keys, IsFiniteSet(S), S # {}
  PROVE  /\ Lowest(S) \in S
         /\ \A f \in S : f # Lowest(S) => Below(Lowest(S), f)
<1> DEFINE F == {{f \in S : Below(f, e)} : e \in S}
<1>1. F \in SUBSET (SUBSET S) /\ F # {}
  OBVIOUS
<1>2. PICK X \in F : \A Y \in F : Y \subseteq X => Y = X
  <2> HIDE DEF F
  <2> QED BY <1>1, MinimalMember
<1>3. PICK e \in S : X = {f \in S : Below(f, e)}
  BY <1>2
<1>4. ASSUME NEW f \in S, f # e PROVE Below(e, f)
  <2> DEFINE Y == {g \in S : Below(g, f)}
  <2>1. SUFFICES ASSUME Below(f, e) PROVE FALSE
    BY <1>4, BelowIsLinear
  <2>2. Y \subseteq X
    BY <1>3, <2>1, BelowIsLinear
  <2>3. Y = X BY <1>2, <2>2
  <2>4. f \in X BY <1>3, <2>1
  <2>5. f \notin Y BY BelowIsLinear
  <2> QED BY <2>3, <2>4, <2>5
<1>5. \E x \in S : \A f \in S \ {x} : Below(x, f)
  BY <1>4
<1> QED BY <1>5 DEF Lowest

-------------------------------------------------------------------------------
(* What a query returns                                                    *)

(* A query returns entries, and no entry without those above it.           *)
LEMMA TopIsUpper ==
  ASSUME NEW S \in SUBSET Keys, IsFiniteSet(S), NEW n \in Nat
  PROVE  /\ Top(S, n) \subseteq S
         /\ IsFiniteSet(Top(S, n))
         /\ \A e \in Top(S, n), f \in S : Below(e, f) => f \in Top(S, n)
<1>1. Top(S, n) \subseteq S
  BY DEF Top
<1>2. IsFiniteSet(Top(S, n))
  BY <1>1, FS_Subset
<1>3. ASSUME NEW e \in Top(S, n), NEW f \in S, Below(e, f) PROVE f \in Top(S, n)
  <2>1. Above(S, f) \subseteq Above(S, e) /\ Above(S, e) \subseteq S
    BY <1>1, <1>3, BelowIsLinear DEF Above
  <2>2. /\ IsFiniteSet(Above(S, e)) /\ Cardinality(Above(S, e)) \in Nat
        /\ Cardinality(Above(S, f)) \in Nat
        /\ Cardinality(Above(S, f)) <= Cardinality(Above(S, e))
    BY <2>1, FS_Subset, FS_CardinalityType
  <2>3. Cardinality(Above(S, e)) < n
    BY <1>3 DEF Top, Above
  <2>4. Cardinality(Above(S, f)) < n
    BY <2>2, <2>3
  <2> QED BY <2>4 DEF Top, Above
<1> QED BY <1>1, <1>2, <1>3

(* LIMIT n cuts nothing off a set of n entries.                            *)
LEMMA TopOfFew ==
  ASSUME NEW S \in SUBSET Keys, IsFiniteSet(S), NEW n \in Nat, Cardinality(S) <= n
  PROVE  Top(S, n) = S
<1>1. ASSUME NEW e \in S PROVE Cardinality(Above(S, e)) < n
  <2>1. Above(S, e) \subseteq S \ {e}
    BY BelowIsLinear DEF Above
  <2>2. IsFiniteSet(S \ {e}) /\ Cardinality(S \ {e}) = Cardinality(S) - 1
    BY FS_RemoveElement
  <2>3. Cardinality(Above(S, e)) <= Cardinality(S \ {e})
        /\ Cardinality(Above(S, e)) \in Nat /\ Cardinality(S) \in Nat
    BY <2>1, <2>2, FS_Subset, FS_CardinalityType
  <2> QED BY <2>2, <2>3
<1> QED BY <1>1 DEF Top, Above

(* Fewer than n + 1 rows are all there are.                                *)
LEMMA FewRowsAreAll ==
  ASSUME NEW S \in SUBSET Keys, IsFiniteSet(S), NEW n \in Nat,
         Cardinality(Top(S, n + 1)) <= n
  PROVE  Top(S, n + 1) = S
<1>0. n + 1 \in Nat OBVIOUS
<1> DEFINE rows == Top(S, n + 1)
<1>1. rows \subseteq S /\ IsFiniteSet(rows)
  BY <1>0, TopIsUpper
<1> SUFFICES ASSUME S \ rows # {} PROVE FALSE
  BY <1>1
<1>2. PICK e \in S \ rows : \A f \in S \ rows : ~Below(e, f)
  BY HighestExists
<1>3. Above(S, e) \subseteq rows
  BY <1>2 DEF Above
<1>4. /\ Cardinality(Above(S, e)) <= Cardinality(rows)
      /\ Cardinality(Above(S, e)) \in Nat /\ Cardinality(rows) \in Nat
  BY <1>1, <1>3, FS_Subset, FS_CardinalityType
<1>5. ~(Cardinality(Above(S, e)) < n + 1)
  BY <1>2 DEF Top, Above
<1> QED BY <1>4, <1>5

(* A page of at least one entry is not empty if there is an entry.         *)
LEMMA TopIsNotEmpty ==
  ASSUME NEW S \in SUBSET Keys, IsFiniteSet(S), S # {}, NEW n \in Nat \ {0}
  PROVE  Top(S, n) # {}
<1>1. PICK e \in S : \A f \in S : ~Below(e, f)
  BY HighestExists
<1>2. Above(S, e) = {} BY <1>1 DEF Above
<1>3. Cardinality(Above(S, e)) = 0 BY <1>2, FS_EmptySet
<1> QED BY <1>3 DEF Top, Above

(* What one query answers about the entries it matches: its page, and a    *)
(* cursor below which everything else is, or no cursor and no rest.        *)
LEMMA PageAndCursor ==
  ASSUME NEW M \in SUBSET Keys, IsFiniteSet(M), NEW size \in Nat \ {0},
         NEW rows, rows = Top(M, size + 1), NEW shown, shown = Top(rows, size),
         NEW next, next = NextCursor(rows, size)
  PROVE  /\ shown \subseteq M
         /\ next = Null => M \subseteq shown
         /\ next # Null => /\ next \in shown
                           /\ \A e \in shown : e # next => Below(next, e)
                           /\ \A e \in M \ shown : Below(e, next)
<1>0. size \in Nat /\ size + 1 \in Nat OBVIOUS
<1>1. /\ rows \subseteq M /\ IsFiniteSet(rows)
      /\ \A e \in rows, f \in M : Below(e, f) => f \in rows
  BY <1>0, TopIsUpper
<1>2. /\ shown \subseteq rows /\ IsFiniteSet(shown)
      /\ \A e \in shown, f \in rows : Below(e, f) => f \in shown
  <2>1. rows \in SUBSET Keys BY <1>1
  <2> QED BY <1>0, <1>1, <2>1, TopIsUpper
<1>3. Cardinality(rows) \in Nat BY <1>1, FS_CardinalityType
<1>4. CASE Cardinality(rows) > size
  <2>1. rows # {} BY <1>0, <1>4, FS_EmptySet
  <2>2. shown # {} BY <1>1, <2>1, TopIsNotEmpty
  <2>3. next = Lowest(shown) BY <1>4 DEF NextCursor
  <2>4. next \in shown /\ \A e \in shown : e # next => Below(next, e)
    BY <1>1, <1>2, <2>2, <2>3, LowestIsLowest
  <2>5. ASSUME NEW e \in M \ shown PROVE Below(e, next)
    BY <1>1, <1>2, <2>4, BelowIsLinear
  <2>6. next # Null BY <1>1, <1>2, <2>4, ReadsAssumption
  <2> QED BY <1>1, <1>2, <2>4, <2>5, <2>6
<1>5. CASE Cardinality(rows) <= size
  <2>1. rows = M BY <1>0, <1>5, FewRowsAreAll
  <2>2. shown = rows BY <1>0, <1>1, <1>5, TopOfFew
  <2>3. next = Null BY <1>0, <1>3, <1>5 DEF NextCursor
  <2> QED BY <2>1, <2>2, <2>3
<1> QED BY <1>0, <1>3, <1>4, <1>5

-------------------------------------------------------------------------------
(* The cursors of the clients                                              *)

(* The entries have sort keys, and a client that may go on has a wallet.   *)
ListTypeOK ==
  /\ keys \in [Wallets -> Seq(Keys)]
  /\ scan \in [Clients -> Wallets \cup {Null}]
  /\ cursor \in [Clients -> Keys \cup {Null}]
  /\ page \in [Clients -> SUBSET Keys]
  /\ listed \in [Clients -> SUBSET Keys]
  /\ known \in [Clients -> SUBSET Keys]
  /\ \A c \in Clients : cursor[c] # Null => scan[c] \in Wallets

(* A cursor is the lowest entry of its page.                               *)
CursorEndsPage ==
  \A c \in Clients :
    cursor[c] # Null => /\ cursor[c] \in page[c]
                        /\ \A e \in page[c] : e # cursor[c] => Below(cursor[c], e)

(* What the client has not seen of the entries it started with is still    *)
(* there, below its cursor.                                                *)
RestIsBelow ==
  \A c \in Clients : \A e \in known[c] \ (listed[c] \cup page[c]) :
    cursor[c] # Null /\ e \in EntryKeys(scan[c]) /\ Below(e, cursor[c])

ListInv == ListTypeOK /\ CursorEndsPage /\ PagesDescend /\ RestIsBelow

(* The statements of the other actors, which only append to ledgers.       *)
LEMMA EntriesStay ==
  ASSUME ListInv, UNCHANGED listVars,
         UNCHANGED keys \/ \E w \in Wallets, k \in Keys :
                             keys' = [keys EXCEPT ![w] = Append(@, k)]
  PROVE  ListInv'
<1>1. keys' \in [Wallets -> Seq(Keys)]
  <2>1. keys \in [Wallets -> Seq(Keys)] BY DEF ListInv, ListTypeOK
  <2>2. ASSUME NEW w \in Wallets, NEW k \in Keys, keys' = [keys EXCEPT ![w] = Append(@, k)]
        PROVE  keys' \in [Wallets -> Seq(Keys)]
    <3>1. Append(keys[w], k) \in Seq(Keys) BY <2>1, AppendProperties
    <3> QED BY <2>1, <2>2, <3>1
  <2> QED BY <2>1, <2>2
<1>2. ASSUME NEW v \in Wallets PROVE EntryKeys(v) \subseteq EntryKeys(v)'
  <2>1. CASE keys'[v] = keys[v] BY <2>1 DEF EntryKeys
  <2>2. CASE \E k \in Keys : keys'[v] = Append(keys[v], k)
    <3>1. PICK k \in Keys : keys'[v] = Append(keys[v], k) BY <2>2
    <3>2. keys[v] \in Seq(Keys) BY DEF ListInv, ListTypeOK
    <3>3. /\ DOMAIN keys[v] = 1 .. Len(keys[v]) /\ Len(keys[v]) \in Nat
          /\ DOMAIN keys'[v] = 1 .. Len(keys[v]) + 1
          /\ \A i \in 1 .. Len(keys[v]) : keys'[v][i] = keys[v][i]
      BY <3>1, <3>2, AppendProperties, LenProperties
    <3> QED BY <3>3 DEF EntryKeys, Range
  <2> QED BY <2>1, <2>2 DEF ListInv, ListTypeOK
<1>3. UNCHANGED <<scan, cursor, page, listed, known>>
  BY DEF listVars
<1>4. ListTypeOK' /\ CursorEndsPage' /\ PagesDescend'
  BY <1>1, <1>3 DEF ListInv, ListTypeOK, CursorEndsPage, PagesDescend
<1>5. RestIsBelow'
  BY <1>2, <1>3 DEF ListInv, ListTypeOK, RestIsBelow
<1> QED BY <1>4, <1>5 DEF ListInv

(* The entries a query matches.                                            *)
LEMMA MatchingOK ==
  ASSUME ListTypeOK, NEW w \in Wallets, NEW after
  PROVE  /\ EntryKeys(w) \subseteq Keys
         /\ Matching(w, after) \subseteq EntryKeys(w)
         /\ IsFiniteSet(Matching(w, after))
<1>1. keys[w] \in Seq(Keys) BY DEF ListTypeOK
<1>2. /\ keys[w] \in [1 .. Len(keys[w]) -> Keys] /\ Len(keys[w]) \in Nat
      /\ DOMAIN keys[w] = 1 .. Len(keys[w])
  BY <1>1, LenProperties
<1>3. EntryKeys(w) \subseteq Keys
  BY <1>2 DEF EntryKeys, Range
<1>4. keys[w] \in Surjection(1 .. Len(keys[w]), EntryKeys(w))
  BY <1>2 DEF EntryKeys, Range, Surjection
<1>5. IsFiniteSet(EntryKeys(w))
  <2> DEFINE n == Len(keys[w])
  <2>0. n \in Int /\ 1 \in Int BY <1>2
  <2> HIDE DEF n
  <2>1. IsFiniteSet(1 .. n) BY <2>0, FS_Interval
  <2> USE DEF n
  <2> QED BY <1>4, <2>1, FS_Surjection
<1>6. Matching(w, after) \subseteq EntryKeys(w)
  BY DEF Matching
<1> QED BY <1>3, <1>5, <1>6, FS_Subset

LEMMA PageSizeOK ==
  ASSUME NEW limit \in Limits
  PROVE  PageSize(limit) \in Nat \ {0}
BY ReadsAssumption DEF PageSize

(* An answer shows a page and leaves the rest of what matches below it.    *)
LEMMA AnswerOK ==
  ASSUME ListTypeOK, NEW c \in Clients, NEW w \in Wallets, NEW after, NEW limit \in Limits,
         Answer(c, w, after, limit)
  PROVE  LET M == Matching(w, after) IN
         /\ page' = [page EXCEPT ![c] = page'[c]]
         /\ cursor' = [cursor EXCEPT ![c] = cursor'[c]]
         /\ page'[c] \subseteq M
         /\ cursor'[c] = Null => M \subseteq page'[c]
         /\ cursor'[c] # Null =>
              /\ cursor'[c] \in page'[c]
              /\ \A e \in page'[c] : e # cursor'[c] => Below(cursor'[c], e)
              /\ \A e \in M \ page'[c] : Below(e, cursor'[c])
<1> DEFINE M == Matching(w, after)
           size == PageSize(limit)
           rows == Top(M, size + 1)
<1>1. M \in SUBSET Keys /\ IsFiniteSet(M) /\ size \in Nat \ {0}
  BY MatchingOK, PageSizeOK
<1>2. /\ page' = [page EXCEPT ![c] = Top(rows, size)]
      /\ cursor' = [cursor EXCEPT ![c] = NextCursor(rows, size)]
  BY DEF Answer
<1>3. page'[c] = Top(rows, size) /\ cursor'[c] = NextCursor(rows, size)
  BY <1>2 DEF ListTypeOK
<1> HIDE DEF size, M
<1>4. /\ page'[c] \subseteq M
      /\ cursor'[c] = Null => M \subseteq page'[c]
      /\ cursor'[c] # Null =>
           /\ cursor'[c] \in page'[c]
           /\ \A e \in page'[c] : e # cursor'[c] => Below(cursor'[c], e)
           /\ \A e \in M \ page'[c] : Below(e, cursor'[c])
  <2> HIDE DEF rows
  <2>1. rows = Top(M, size + 1) BY DEF rows
  <2> QED BY <1>1, <1>3, <2>1, PageAndCursor
<1> QED BY <1>2, <1>3, <1>4 DEF M

(* The first page starts the listing at the top.                           *)
LEMMA FirstPageOK ==
  ASSUME ListInv, NEW c \in Clients, NEW w \in Wallets, NEW limit \in Limits,
         FirstPage(c, w, limit)
  PROVE  ListInv'
<1> DEFINE M == Matching(w, Null)
<1>type. ListTypeOK BY DEF ListInv
<1>1. M = EntryKeys(w) /\ M \subseteq Keys
  BY <1>type, MatchingOK DEF Matching
<1>2. /\ page' = [page EXCEPT ![c] = page'[c]]
      /\ cursor' = [cursor EXCEPT ![c] = cursor'[c]]
      /\ page'[c] \subseteq M
      /\ cursor'[c] = Null => M \subseteq page'[c]
      /\ cursor'[c] # Null =>
           /\ cursor'[c] \in page'[c]
           /\ \A e \in page'[c] : e # cursor'[c] => Below(cursor'[c], e)
           /\ \A e \in M \ page'[c] : Below(e, cursor'[c])
  BY <1>type, AnswerOK DEF FirstPage
<1>3. /\ scan' = [scan EXCEPT ![c] = w] /\ listed' = [listed EXCEPT ![c] = {}]
      /\ known' = [known EXCEPT ![c] = M] /\ UNCHANGED keys
  BY <1>1 DEF FirstPage
<1> HIDE DEF M
<1>4. ListTypeOK'
  BY <1>1, <1>2, <1>3, <1>type DEF ListTypeOK
<1>5. CursorEndsPage'
  BY <1>2, <1>type DEF ListInv, ListTypeOK, CursorEndsPage
<1>6. PagesDescend'
  BY <1>2, <1>3, <1>type DEF ListInv, ListTypeOK, PagesDescend
<1>7. RestIsBelow'
  <2> SUFFICES ASSUME NEW d \in Clients, NEW e \in known'[d] \ (listed'[d] \cup page'[d])
               PROVE  cursor'[d] # Null /\ e \in EntryKeys(scan[d])' /\ Below(e, cursor'[d])
    BY DEF RestIsBelow
  <2>1. CASE d = c
    <3>1. e \in M \ page'[c] /\ scan'[c] = w /\ EntryKeys(w)' = M
      BY <1>1, <1>3, <1>type, <2>1 DEF ListTypeOK, EntryKeys
    <3> QED BY <1>2, <2>1, <3>1
  <2>2. CASE d # c
    <3>1. /\ known'[d] = known[d] /\ listed'[d] = listed[d] /\ page'[d] = page[d]
          /\ cursor'[d] = cursor[d] /\ scan'[d] = scan[d]
      BY <1>2, <1>3, <1>type, <2>2 DEF ListTypeOK
    <3> QED BY <1>3, <3>1 DEF ListInv, RestIsBelow, EntryKeys
  <2> QED BY <2>1, <2>2
<1> QED BY <1>4, <1>5, <1>6, <1>7 DEF ListInv

(* A next page goes on below the cursor.                                   *)
LEMMA NextPageOK ==
  ASSUME ListInv, NEW c \in Clients, NEW limit \in Limits, NextPage(c, limit)
  PROVE  ListInv'
<1> DEFINE w == scan[c]
           M == Matching(w, cursor[c])
<1>type. ListTypeOK BY DEF ListInv
<1>0. cursor[c] # Null /\ cursor[c] \in Keys /\ w \in Wallets
  BY <1>type DEF NextPage, ListTypeOK
<1>1. M = {e \in EntryKeys(w) : Below(e, cursor[c])} /\ M \subseteq Keys
  BY <1>0, <1>type, MatchingOK DEF Matching
<1>2. /\ page' = [page EXCEPT ![c] = page'[c]]
      /\ cursor' = [cursor EXCEPT ![c] = cursor'[c]]
      /\ page'[c] \subseteq M
      /\ cursor'[c] = Null => M \subseteq page'[c]
      /\ cursor'[c] # Null =>
           /\ cursor'[c] \in page'[c]
           /\ \A e \in page'[c] : e # cursor'[c] => Below(cursor'[c], e)
           /\ \A e \in M \ page'[c] : Below(e, cursor'[c])
  BY <1>0, <1>type, AnswerOK DEF NextPage
<1>3. /\ listed' = [listed EXCEPT ![c] = @ \cup page[c]]
      /\ UNCHANGED <<keys, scan, known>>
  BY DEF NextPage
<1> HIDE DEF M
<1>4. ListTypeOK'
  <2>1. cursor'[c] \in Keys \cup {Null} /\ page'[c] \in SUBSET Keys
    BY <1>1, <1>2
  <2>2. listed' \in [Clients -> SUBSET Keys]
    BY <1>3, <1>type DEF ListTypeOK
  <2>3. \A d \in Clients : cursor'[d] # Null => scan'[d] \in Wallets
    BY <1>0, <1>2, <1>3, <1>type DEF ListTypeOK
  <2> QED BY <1>2, <1>3, <2>1, <2>2, <2>3, <1>type DEF ListTypeOK
<1>5. CursorEndsPage'
  BY <1>2, <1>type DEF ListInv, ListTypeOK, CursorEndsPage
<1>6. PagesDescend'
  <2>1. ASSUME NEW e \in page'[c], NEW f \in listed[c] \cup page[c] PROVE Below(e, f)
    <3>1. e \in Keys /\ f \in Keys /\ Below(e, cursor[c])
      BY <1>1, <1>2, <1>type DEF ListTypeOK
    <3>2. f = cursor[c] \/ Below(cursor[c], f)
      BY <1>0 DEF ListInv, CursorEndsPage, PagesDescend
    <3> QED BY <1>0, <3>1, <3>2, BelowIsLinear
  <2>2. listed'[c] = listed[c] \cup page[c]
        /\ \A d \in Clients \ {c} : listed'[d] = listed[d] /\ page'[d] = page[d]
    BY <1>2, <1>3, <1>type DEF ListTypeOK
  <2> QED BY <2>1, <2>2 DEF ListInv, PagesDescend
<1>7. RestIsBelow'
  <2> SUFFICES ASSUME NEW d \in Clients, NEW e \in known'[d] \ (listed'[d] \cup page'[d])
               PROVE  cursor'[d] # Null /\ e \in EntryKeys(scan[d])' /\ Below(e, cursor'[d])
    BY DEF RestIsBelow
  <2>1. known'[d] = known[d] /\ EntryKeys(scan[d])' = EntryKeys(scan[d])
    BY <1>3 DEF EntryKeys
  <2>2. CASE d = c
    <3>1. e \in known[c] \ (listed[c] \cup page[c])
      BY <1>3, <1>type, <2>1, <2>2 DEF ListTypeOK
    <3>2. e \in M
      BY <1>1, <3>1 DEF ListInv, RestIsBelow
    <3> QED BY <1>1, <1>2, <2>1, <2>2, <3>2
  <2>3. CASE d # c
    <3>1. listed'[d] = listed[d] /\ page'[d] = page[d] /\ cursor'[d] = cursor[d]
      BY <1>2, <1>3, <1>type, <2>3 DEF ListTypeOK
    <3> QED BY <2>1, <3>1 DEF ListInv, RestIsBelow
  <2> QED BY <2>2, <2>3
<1> QED BY <1>4, <1>5, <1>6, <1>7 DEF ListInv

LEMMA ListInvHolds == Spec => []ListInv
<1>1. Init => ListInv
  <2> SUFFICES ASSUME Init PROVE ListInv
    OBVIOUS
  <2>1. << >> \in Seq(Keys) BY EmptySeq
  <2> QED BY <2>1 DEF Init, ListInv, ListTypeOK, CursorEndsPage, PagesDescend, RestIsBelow
<1>2. ASSUME ListInv, [Next]_vars PROVE ListInv'
  <2>1. CASE UNCHANGED vars
    BY <1>2, <2>1, EntriesStay DEF vars
  <2>2. ASSUME NEW w \in Wallets, Commit(w) PROVE ListInv'
    BY <1>2, <2>2, EntriesStay DEF Commit, Stamp
  <2>3. ASSUME NEW a \in Auditors, NEW w \in Wallets, ReadWallet(a, w) PROVE ListInv'
    BY <1>2, <2>3, EntriesStay DEF ReadWallet
  <2>4. ASSUME NEW a \in Auditors, SumLedger(a) PROVE ListInv'
    BY <1>2, <2>4, EntriesStay DEF SumLedger
  <2>5. ASSUME NEW c \in Clients, NEW limit \in Limits, NEW w \in Wallets,
               FirstPage(c, w, limit)
        PROVE  ListInv'
    BY <1>2, <2>5, FirstPageOK
  <2>6. ASSUME NEW c \in Clients, NEW limit \in Limits, NextPage(c, limit) PROVE ListInv'
    BY <1>2, <2>6, NextPageOK
  <2> QED BY <1>2, <2>1, <2>2, <2>3, <2>4, <2>5, <2>6 DEF Next
<1> QED BY <1>1, <1>2, PTL DEF Spec

(* Pages never overlap and never go up again, whatever commits in between  *)
(* and whatever the clocks of the instances say.                           *)
THEOREM PagesGoDown == Spec => []PagesDescend
<1>1. ListInv => PagesDescend
  BY DEF ListInv
<1> QED BY <1>1, ListInvHolds, PTL

(* The last page completes the listing: nothing that was there when it     *)
(* began is skipped, by any limits and at any sizes of the ledger.         *)
THEOREM ListingsAreComplete == Spec => []ListingIsComplete
<1>1. ListInv => ListingIsComplete
  BY DEF ListInv, RestIsBelow, ListingIsComplete
<1> QED BY <1>1, ListInvHolds, PTL
-------------------------------------------------------------------------------
(* Sums of ledgers.  Total is a fold over a set; what it computes is shown *)
(* by induction on the size of that set, here with sets of numbers instead *)
(* of predicates.                                                          *)

(* Induction over the natural numbers, for a set instead of a predicate.   *)
LEMMA AllNaturals ==
  ASSUME NEW T, 0 \in T, \A n \in T \cap Nat : n + 1 \in T
  PROVE  Nat \subseteq T
<1> SUFFICES ASSUME NEW n \in Nat, n \notin T PROVE FALSE
  OBVIOUS
<1> DEFINE F == {0 .. k : k \in (0 .. n) \ T}
<1>1. IsFiniteSet(0 .. n)
  <2>1. 0 \in Int /\ n \in Int OBVIOUS
  <2> QED BY <2>1, FS_Interval
<1>2. F \in SUBSET (SUBSET (0 .. n)) /\ F # {}
  OBVIOUS
<1>3. PICK X \in F : \A Y \in F : Y \subseteq X => Y = X
  <2> DEFINE I == 0 .. n
  <2>1. IsFiniteSet(I) /\ F \in SUBSET (SUBSET I) /\ F # {} BY <1>1, <1>2
  <2> HIDE DEF F, I
  <2> QED BY <2>1, MinimalMember
<1>4. PICK k \in (0 .. n) \ T : X = 0 .. k
  BY <1>3
<1>5. k - 1 \in Nat /\ k - 1 \notin T /\ k - 1 \in 0 .. n
  <2>1. k # 0 BY <1>4
  <2>2. k - 1 \in Nat /\ k - 1 \in 0 .. n BY <2>1
  <2>3. (k - 1) + 1 = k OBVIOUS
  <2> QED BY <1>4, <2>2, <2>3
<1>6. 0 .. (k - 1) \in F /\ 0 .. (k - 1) \subseteq X /\ k \in X /\ k \notin 0 .. (k - 1)
  BY <1>4, <1>5
<1> QED BY <1>3, <1>6

(* The function by which a fold sums f over subsets of S, taking off one   *)
(* element after the other.                                                *)
Some(s) == CHOOSE x \in s : TRUE

Sums(f, S, D, g) ==
  g = [s \in D |-> IF s = {} THEN 0 ELSE f[Some(s)] + g[s \ {Some(s)}]]

SumOver(f, S) == FoldFunctionOnSet(+, 0, f, S)

(* There is one, since a set without its chosen element is smaller.        *)
LEMMA SumsExist ==
  ASSUME NEW f, NEW S, IsFiniteSet(S)
  PROVE  \E g : Sums(f, S, SUBSET S, g)
<1> DEFINE D(n) == {s \in SUBSET S : Cardinality(s) <= n}
           T == {n \in Nat : \E g : Sums(f, S, D(n), g)}
<1>1. \A s \in SUBSET S : Cardinality(s) \in Nat /\ IsFiniteSet(s)
  BY FS_Subset, FS_CardinalityType
<1>2. \A s \in SUBSET S : s # {} => /\ Some(s) \in s
                                    /\ Cardinality(s \ {Some(s)}) = Cardinality(s) - 1
                                    /\ s \ {Some(s)} \in SUBSET S
  BY <1>1, FS_RemoveElement DEF Some
<1>3. 0 \in T
  <2> DEFINE g == [s \in D(0) |-> 0]
  <2>1. \A s \in D(0) : s = {}
    BY <1>1, FS_EmptySet
  <2>2. g = [s \in D(0) |-> IF s = {} THEN 0 ELSE f[Some(s)] + g[s \ {Some(s)}]]
    BY <2>1
  <2> QED BY <2>2 DEF Sums
<1>4. ASSUME NEW n \in T \cap Nat PROVE n + 1 \in T
  <2>1. PICK g : Sums(f, S, D(n), g) BY <1>4
  <2> DEFINE h == [s \in D(n + 1) |-> IF s = {} THEN 0 ELSE f[Some(s)] + g[s \ {Some(s)}]]
  <2>2. \A s \in D(n) : h[s] = g[s] /\ s \in D(n + 1)
    <3>1. \A s \in D(n) : s \in D(n + 1) BY <1>1
    <3>2. \A s \in D(n) : g[s] = IF s = {} THEN 0 ELSE f[Some(s)] + g[s \ {Some(s)}]
      BY <2>1 DEF Sums
    <3> QED BY <3>1, <3>2
  <2>3. \A s \in D(n + 1) : s # {} => s \ {Some(s)} \in D(n)
    BY <1>1, <1>2
  <2>4. h = [s \in D(n + 1) |-> IF s = {} THEN 0 ELSE f[Some(s)] + h[s \ {Some(s)}]]
    <3> HIDE DEF D
    <3> QED BY <2>2, <2>3
  <2>5. \E q : Sums(f, S, D(n + 1), q)
    <3> HIDE DEF h
    <3> QED BY <2>4 DEF Sums
  <2> QED BY <2>5
<1>5. Cardinality(S) \in T
  <2> HIDE DEF T
  <2> QED BY <1>3, <1>4, <1>1, AllNaturals
<1>6. D(Cardinality(S)) = SUBSET S
  BY FS_Subset, FS_CardinalityType
<1> QED BY <1>5, <1>6

(* It sums integers to integers, and what it takes off first is the same.  *)
LEMMA SumsCommute ==
  ASSUME NEW S, IsFiniteSet(S), NEW f, \A x \in S : f[x] \in Int,
         NEW g, Sums(f, S, SUBSET S, g)
  PROVE  \A s \in SUBSET S : /\ g[s] \in Int
                             /\ \A y \in s : g[s] = f[y] + g[s \ {y}]
<1> DEFINE OK(s) == g[s] \in Int /\ \A y \in s : g[s] = f[y] + g[s \ {y}]
           T == {n \in Nat : \A s \in SUBSET S : Cardinality(s) <= n => OK(s)}
<1>1. \A s \in SUBSET S : Cardinality(s) \in Nat /\ IsFiniteSet(s)
  BY FS_Subset, FS_CardinalityType
<1>2. \A s \in SUBSET S, y \in S : y \in s => /\ s \ {y} \in SUBSET S
                                              /\ Cardinality(s \ {y}) = Cardinality(s) - 1
  BY <1>1, FS_RemoveElement
<1>3. \A s \in SUBSET S : g[s] = IF s = {} THEN 0 ELSE f[Some(s)] + g[s \ {Some(s)}]
  BY DEF Sums
<1>4. 0 \in T
  <2>1. ASSUME NEW s \in SUBSET S, Cardinality(s) <= 0 PROVE OK(s)
    <3>1. s = {} BY <1>1, <2>1, FS_EmptySet
    <3>2. g[s] = 0 BY <1>3, <3>1
    <3> QED BY <3>1, <3>2
  <2> QED BY <2>1
<1>5. ASSUME NEW n \in T \cap Nat PROVE n + 1 \in T
  <2> SUFFICES ASSUME NEW s \in SUBSET S, Cardinality(s) <= n + 1 PROVE OK(s)
    OBVIOUS
  <2>1. CASE s = {}
    <3>1. g[s] = 0 BY <1>3, <2>1
    <3> QED BY <2>1, <3>1
  <2>2. CASE s # {}
    <3> DEFINE x == Some(s)
    <3>1. x \in s BY <2>2 DEF Some
    <3> HIDE DEF x
    <3>2. \A y \in s : s \ {y} \in SUBSET S /\ Cardinality(s \ {y}) <= n /\ OK(s \ {y})
      <4> TAKE y \in s
      <4>1. s \ {y} \in SUBSET S /\ Cardinality(s \ {y}) <= n BY <1>1, <1>2
      <4> QED BY <4>1
    <3>3. g[s] = f[x] + g[s \ {x}] BY <1>3, <2>2 DEF x
    <3>4. g[s] \in Int BY <3>1, <3>2, <3>3
    <3>5. ASSUME NEW y \in s, y # x PROVE g[s] = f[y] + g[s \ {y}]
      <4>1. y \in s \ {x} /\ x \in s \ {y} /\ (s \ {x}) \ {y} = (s \ {y}) \ {x}
        BY <3>1, <3>5
      <4>2. g[s \ {x}] = f[y] + g[(s \ {x}) \ {y}] BY <3>1, <3>2, <4>1
      <4>3. g[s \ {y}] = f[x] + g[(s \ {y}) \ {x}] BY <3>2, <4>1
      <4> DEFINE R == s \ {x}
                 rest == g[R \ {y}]
      <4>4. R \in SUBSET S /\ Cardinality(R) <= n /\ Cardinality(R) \in Nat
        BY <1>1, <3>1, <3>2
      <4>5. rest \in Int
        <5> HIDE DEF R
        <5>1. R \ {y} \in SUBSET S /\ Cardinality(R \ {y}) <= n
          BY <1>1, <4>4, FS_RemoveElement
        <5> QED BY <5>1
      <4>6. f[x] \in Int /\ f[y] \in Int BY <3>1
      <4>7. /\ g[s] = f[x] + g[R] /\ g[R] = f[y] + rest
            /\ g[s \ {y}] = f[x] + rest
        BY <3>3, <4>1, <4>2, <4>3
      <4> HIDE DEF R, rest
      <4>8. \A a, b, c \in Int : a + (b + c) = b + (a + c) OBVIOUS
      <4>9. g[s] = f[x] + (f[y] + rest) /\ f[y] + g[s \ {y}] = f[y] + (f[x] + rest)
        BY ONLY <4>7
      <4>10. f[x] + (f[y] + rest) = f[y] + (f[x] + rest)
        BY ONLY <4>5, <4>6, <4>8
      <4> QED BY ONLY <4>9, <4>10
    <3> QED BY <3>3, <3>4, <3>5
  <2> QED BY <2>1, <2>2
<1>6. Nat \subseteq T
  <2> HIDE DEF T
  <2> QED BY <1>4, <1>5, AllNaturals
<1> QED BY <1>1, <1>6

(* Two such functions agree where what they sum is the same.               *)
LEMMA SumsAgree ==
  ASSUME NEW S, IsFiniteSet(S), NEW R, NEW f, NEW e, NEW g, NEW h,
         Sums(f, S, SUBSET S, g), Sums(e, R, SUBSET R, h),
         S \subseteq R, \A x \in S : f[x] = e[x]
  PROVE  g[S] = h[S]
<1> DEFINE T == {n \in Nat : \A s \in SUBSET S : Cardinality(s) <= n => g[s] = h[s]}
<1>1. \A s \in SUBSET S : Cardinality(s) \in Nat /\ IsFiniteSet(s)
  BY FS_Subset, FS_CardinalityType
<1>2. \A s \in SUBSET S :
        /\ g[s] = IF s = {} THEN 0 ELSE f[Some(s)] + g[s \ {Some(s)}]
        /\ h[s] = IF s = {} THEN 0 ELSE e[Some(s)] + h[s \ {Some(s)}]
  BY DEF Sums
<1>3. 0 \in T
  <2>1. ASSUME NEW s \in SUBSET S, Cardinality(s) <= 0 PROVE g[s] = h[s]
    <3>1. s = {} BY <1>1, <2>1, FS_EmptySet
    <3> QED BY <1>2, <3>1
  <2> QED BY <2>1
<1>4. ASSUME NEW n \in T \cap Nat PROVE n + 1 \in T
  <2> SUFFICES ASSUME NEW s \in SUBSET S, Cardinality(s) <= n + 1 PROVE g[s] = h[s]
    OBVIOUS
  <2>0. CASE s = {}
    BY <1>2, <2>0
  <2> SUFFICES ASSUME s # {} PROVE g[s] = h[s]
    BY <2>0
  <2>1. Some(s) \in s BY DEF Some
  <2>2. s \ {Some(s)} \in SUBSET S /\ Cardinality(s \ {Some(s)}) <= n
    BY <1>1, <2>1, FS_RemoveElement
  <2>3. g[s \ {Some(s)}] = h[s \ {Some(s)}] BY <2>2
  <2> QED BY <1>2, <2>1, <2>3
<1>5. Nat \subseteq T
  <2> HIDE DEF T
  <2> QED BY <1>3, <1>4, AllNaturals
<1>6. Cardinality(S) \in Nat /\ S \in SUBSET S BY <1>1
<1> QED BY <1>5, <1>6

(* Folding f over S with + computes one of them.                           *)
LEMMA SumOfSet ==
  ASSUME NEW S, IsFiniteSet(S), NEW f
  PROVE  \E g : Sums(f, S, SUBSET S, g) /\ SumOver(f, S) = g[S]
<1> DEFINE it == CHOOSE g : Sums(f, S, SUBSET S, g)
<1>1. Sums(f, S, SUBSET S, it) BY SumsExist
<1>2. SumOver(f, S) = it[S]
  BY DEF SumOver, FoldFunctionOnSet, MapThenFoldSet, Sums, Some
<1> QED BY <1>1, <1>2

LEMMA SumProperties ==
  ASSUME NEW S, IsFiniteSet(S), NEW f, \A x \in S : f[x] \in Int
  PROVE  /\ SumOver(f, S) \in Int
         /\ SumOver(f, {}) = 0
         /\ \A y \in S : SumOver(f, S) = f[y] + SumOver(f, S \ {y})
         /\ \A e : (\A x \in S : e[x] = f[x]) => SumOver(e, S) = SumOver(f, S)
<1>1. PICK g : Sums(f, S, SUBSET S, g) /\ SumOver(f, S) = g[S]
  BY SumOfSet
<1>0. \A s \in SUBSET S : /\ g[s] \in Int
                          /\ \A y \in s : g[s] = f[y] + g[s \ {y}]
  <2>1. Sums(f, S, SUBSET S, g) BY <1>1
  <2>2. \A x \in S : f[x] \in Int OBVIOUS
  <2>3. IsFiniteSet(S) OBVIOUS
  <2> QED BY ONLY <2>1, <2>2, <2>3, SumsCommute
<1>2. SumOver(f, S) \in Int
  <2>1. S \in SUBSET S OBVIOUS
  <2> QED BY <1>0, <1>1, <2>1
<1>3. SumOver(f, {}) = 0
  <2>1. PICK h : Sums(f, {}, SUBSET {}, h) /\ SumOver(f, {}) = h[{}]
    BY FS_EmptySet, SumOfSet
  <2> QED BY <2>1 DEF Sums
<1>4. ASSUME NEW y \in S PROVE SumOver(f, S) = f[y] + SumOver(f, S \ {y})
  <2> DEFINE R == S \ {y}
  <2>1. IsFiniteSet(R) /\ R \subseteq S BY FS_RemoveElement
  <2>2. PICK h : Sums(f, R, SUBSET R, h) /\ SumOver(f, R) = h[R]
    <3> HIDE DEF R
    <3> QED BY <2>1, SumOfSet
  <2>3. h[R] = g[R]
    <3> HIDE DEF R
    <3> QED BY <1>1, <2>1, <2>2, SumsAgree
  <2>4. g[S] = f[y] + g[R]
    <3>1. S \in SUBSET S OBVIOUS
    <3> QED BY <1>0, <3>1
  <2> QED BY <1>1, <2>2, <2>3, <2>4
<1>5. ASSUME NEW e, \A x \in S : e[x] = f[x] PROVE SumOver(e, S) = SumOver(f, S)
  <2>1. PICK h : Sums(e, S, SUBSET S, h) /\ SumOver(e, S) = h[S]
    BY SumOfSet
  <2> QED BY <1>1, <1>5, <2>1, SumsAgree
<1> QED BY <1>2, <1>3, <1>4, <1>5

(* A ledger's total grows by the entry appended.                           *)
LEMMA TotalGrows ==
  ASSUME NEW l \in Seq(Int), NEW x \in Int
  PROVE  Total(Append(l, x)) = Total(l) + x
<1> DEFINE n == Len(l)
           m == Append(l, x)
           S == 1 .. n + 1
           R == 1 .. n
<1>1. /\ n \in Nat /\ DOMAIN l = R /\ m \in Seq(Int) /\ DOMAIN m = S
      /\ \A i \in R : m[i] = l[i] /\ l[i] \in Int
      /\ \A i \in S : m[i] \in Int
      /\ m[n + 1] = x
  <2>1. m \in Seq(Int) /\ Len(m) = n + 1 /\ n \in Nat
        /\ DOMAIN m = 1 .. Len(m) /\ DOMAIN l = 1 .. n
        /\ m \in [1 .. Len(m) -> Int] /\ l \in [1 .. n -> Int]
    BY AppendProperties, LenProperties
  <2> QED BY <2>1, AppendProperties
<1>2. IsFiniteSet(S) /\ IsFiniteSet(R)
  <2>1. n + 1 \in Int /\ n \in Int /\ 1 \in Int BY <1>1
  <2> QED BY <2>1, FS_Interval
<1>3. Total(m) = SumOver(m, S) /\ Total(l) = SumOver(l, R)
  BY <1>1 DEF Total, FoldFunction, SumOver
<1>4. S \ {n + 1} = R /\ n + 1 \in S BY <1>1
<1> HIDE DEF n, m, S, R
<1>5. SumOver(m, S) = m[n + 1] + SumOver(m, S \ {n + 1})
  BY <1>1, <1>2, <1>4, SumProperties
<1>6. SumOver(m, R) = SumOver(l, R) /\ SumOver(l, R) \in Int
  BY <1>1, <1>2, SumProperties
<1>7. Total(m) = Total(l) + x
  <2>1. Total(m) = x + Total(l) /\ Total(l) \in Int
    BY <1>1, <1>3, <1>4, <1>5, <1>6
  <2>2. \A a, b \in Int : a + b = b + a OBVIOUS
  <2> QED BY <2>1, <2>2
<1> QED BY <1>7 DEF m

LEMMA TotalType ==
  /\ Total(<< >>) = 0
  /\ \A l \in Seq(Int) : Total(l) \in Int
<1>1. Total(<< >>) = 0
  <2>1. IsFiniteSet({}) BY FS_EmptySet
  <2>2. Total(<< >>) = SumOver(<< >>, {})
    <3>1. DOMAIN << >> = {} OBVIOUS
    <3> QED BY <3>1 DEF Total, FoldFunction, SumOver
  <2>3. PICK g : Sums(<< >>, {}, SUBSET {}, g) /\ SumOver(<< >>, {}) = g[{}]
    BY <2>1, SumOfSet
  <2> QED BY <2>2, <2>3 DEF Sums
<1>2. ASSUME NEW l \in Seq(Int) PROVE Total(l) \in Int
  <2> DEFINE S == 1 .. Len(l)
  <2>1. Len(l) \in Nat /\ DOMAIN l = S /\ \A i \in S : l[i] \in Int
    BY LenProperties
  <2>2. IsFiniteSet(S)
    <3>1. Len(l) \in Int /\ 1 \in Int BY <2>1
    <3> QED BY <3>1, FS_Interval
  <2>3. Total(l) = SumOver(l, S)
    BY <2>1 DEF Total, FoldFunction, SumOver
  <2> HIDE DEF S
  <2> QED BY <2>1, <2>2, <2>3, SumProperties
<1> QED BY <1>1, <1>2

(* A ledger's total is that of its first entries and that of the rest.     *)
LEMMA TotalSplits ==
  ASSUME NEW l \in Seq(Int), NEW b \in Nat, NEW k \in Nat, b <= k, k <= Len(l)
  PROVE  Total(SubSeq(l, 1, k)) = Total(SubSeq(l, 1, b)) + Total(SubSeq(l, b + 1, k))
<1> DEFINE Split(n) == Total(SubSeq(l, 1, n)) = Total(SubSeq(l, 1, b)) + Total(SubSeq(l, b + 1, n))
           T == {n \in Nat : b + n <= Len(l) => Split(b + n)}
<1>len. Len(l) \in Nat /\ \A i \in 1 .. Len(l) : l[i] \in Int
  BY LenProperties
<1>1. \A i \in 1 .. b + 1, n \in 0 .. Len(l) : SubSeq(l, i, n) \in Seq(Int)
  <2> TAKE i \in 1 .. b + 1, n \in 0 .. Len(l)
  <2>1. i \in Int /\ n \in Int /\ \A j \in i .. n : l[j] \in Int BY <1>len
  <2> QED BY <2>1, SubSeqProperties
<1>2. 0 \in T
  <2>1. SubSeq(l, b + 1, b) = << >>
    <3>1. b + 1 \in Int /\ b \in Int /\ b < b + 1 OBVIOUS
    <3> QED BY <3>1, SubSeqEmpty
  <2>2. Total(SubSeq(l, 1, b)) \in Int
    <3>1. 1 \in 1 .. b + 1 /\ b \in 0 .. Len(l) BY <1>len
    <3> QED BY <1>1, <3>1, TotalType
  <2>3. Total(SubSeq(l, b + 1, b)) = 0 BY <2>1, TotalType
  <2>4. \A a \in Int : a + 0 = a OBVIOUS
  <2>5. Total(SubSeq(l, 1, b)) + Total(SubSeq(l, b + 1, b)) = Total(SubSeq(l, 1, b))
    BY <2>2, <2>3, <2>4
  <2> QED BY <2>5
<1>3. ASSUME NEW n \in T \cap Nat PROVE n + 1 \in T
  <2> SUFFICES ASSUME b + (n + 1) <= Len(l) PROVE Split(b + (n + 1))
    OBVIOUS
  <2> DEFINE p == b + n
             q == b + (n + 1)
  <2>0. Split(p) /\ p \in Nat /\ q \in Nat /\ q = p + 1 /\ q <= Len(l) /\ b <= p
    BY <1>len
  <2>1. l[q] \in Int BY <1>len
  <2>2. ASSUME NEW i \in 1 .. b + 1 PROVE Total(SubSeq(l, i, q)) = Total(SubSeq(l, i, p)) + l[q]
    <3>1. i \in 1 .. Len(l) /\ q \in i .. Len(l) /\ q - 1 = p /\ p \in 0 .. Len(l)
      BY <1>len
    <3> HIDE DEF p, q
    <3>2. SubSeq(l, i, q) = SubSeq(l, i, p) \o << l[q] >>
      BY <3>1, SubSeqRecursiveSecond
    <3>3. SubSeq(l, i, p) \in Seq(Int) BY <1>1, <3>1
    <3>4. SubSeq(l, i, q) = Append(SubSeq(l, i, p), l[q])
      BY <2>1, <3>2, <3>3, AppendIsConcat
    <3> QED BY <2>1, <3>3, <3>4, TotalGrows
  <2>3. /\ Total(SubSeq(l, 1, q)) = Total(SubSeq(l, 1, p)) + l[q]
        /\ Total(SubSeq(l, b + 1, q)) = Total(SubSeq(l, b + 1, p)) + l[q]
    <3>1. 1 \in 1 .. b + 1 /\ b + 1 \in 1 .. b + 1 OBVIOUS
    <3> HIDE DEF p, q
    <3> QED BY <2>2, <3>1
  <2>4. /\ Total(SubSeq(l, 1, p)) \in Int /\ Total(SubSeq(l, b + 1, p)) \in Int
        /\ Total(SubSeq(l, 1, b)) \in Int
    <3>1. /\ 1 \in 1 .. b + 1 /\ b + 1 \in 1 .. b + 1
          /\ p \in 0 .. Len(l) /\ b \in 0 .. Len(l)
      BY <1>len
    <3> HIDE DEF p
    <3> QED BY <1>1, <3>1, TotalType
  <2>5. Split(q)
    <3> HIDE DEF p, q
    <3> QED BY <2>0, <2>1, <2>3, <2>4
  <2> QED BY <2>5
<1>4. Nat \subseteq T
  <2> HIDE DEF T
  <2> QED BY <1>2, <1>3, AllNaturals
<1>5. k - b \in Nat /\ b + (k - b) = k OBVIOUS
<1> QED BY <1>4, <1>5

-------------------------------------------------------------------------------
(* Audits                                                                  *)

(* The ledger adds up to the balance, and every entry has its own key.     *)
EntriesOK ==
  /\ balance \in [Wallets -> Nat \cup {Null}]
  /\ ledger \in [Wallets -> Seq(Int)]
  /\ keys \in [Wallets -> Seq(Keys)]
  /\ \A w \in Wallets :
       /\ Len(keys[w]) = Len(ledger[w])
       /\ \A i, j \in DOMAIN keys[w] : keys[w][i].id = keys[w][j].id => i = j
  /\ \A w \in Wallets : Total(ledger[w]) = IF balance[w] = Null THEN 0 ELSE balance[w]

(* The first n entries of a wallet exist and add up to an amount.          *)
AddsUp(w, n, amount) ==
  n <= Len(ledger[w]) /\ Total(SubSeq(ledger[w], 1, n)) = amount

(* What an auditor has read is the balance after a number of entries, and  *)
(* what it reports are two such numbers with their balances.               *)
AuditsOK ==
  /\ check \in [Auditors -> [wallet : Wallets \cup {Null}, stored : Nat, before : Nat]]
  /\ report \in [Auditors -> Reports]
  /\ \A a \in Auditors : check[a] # NoCheck =>
       /\ check[a].wallet \in Wallets
       /\ AddsUp(check[a].wallet, check[a].before, check[a].stored)
  /\ \A a \in Auditors : report[a] # NoReport =>
       /\ report[a].wallet \in Wallets
       /\ report[a].before <= report[a].checked
       /\ AddsUp(report[a].wallet, report[a].before, report[a].stored)
       /\ AddsUp(report[a].wallet, report[a].checked, report[a].calculated)
       /\ report[a].consistent <=> report[a].stored = report[a].calculated

AuditInv == EntriesOK /\ AuditsOK

(* A commit appends at most one entry, of the amount it adds to the balance. *)
LEMMA CommitAppends ==
  ASSUME EntriesOK, NEW w \in Wallets, Commit(w)
  PROVE  /\ \E b \in Nat : balance' = [balance EXCEPT ![w] = b]
         /\ Total(ledger'[w]) = balance'[w]
         /\ \/ UNCHANGED <<ledger, keys>>
            \/ \E x \in Int, k \in Keys :
                 /\ ledger' = [ledger EXCEPT ![w] = Append(@, x)]
                 /\ keys' = [keys EXCEPT ![w] = Append(@, k)]
                 /\ \A e \in EntryKeys(w) : e.id # k.id
<1>type. /\ ledger \in [Wallets -> Seq(Int)] /\ ledger[w] \in Seq(Int)
         /\ balance \in [Wallets -> Nat \cup {Null}]
         /\ Total(ledger[w]) = IF balance[w] = Null THEN 0 ELSE balance[w]
  BY DEF EntriesOK
<1>1. ASSUME NEW x \in Int, ledger' = [ledger EXCEPT ![w] = Append(@, x)]
      PROVE  /\ Total(ledger'[w]) = Total(ledger[w]) + x
             /\ \E k \in Keys : /\ keys' = [keys EXCEPT ![w] = Append(@, k)]
                                /\ \A e \in EntryKeys(w) : e.id # k.id
  <2>1. ledger'[w] = Append(ledger[w], x) BY <1>1, <1>type
  <2>2. Len(Append(ledger[w], x)) # Len(ledger[w])
    BY <1>type, AppendProperties, LenProperties
  <2>3. ledger' # ledger BY <2>1, <2>2
  <2>4. Total(ledger'[w]) = Total(ledger[w]) + x
    BY <1>type, <2>1, TotalGrows
  <2> QED BY <2>3, <2>4 DEF Commit, Stamp
<1>2. ASSUME NEW amount \in Openings, Open(w, amount)
      PROVE  /\ balance' = [balance EXCEPT ![w] = amount] /\ amount \in Nat
             /\ balance[w] = Null
             /\ \/ amount = 0 /\ ledger' = ledger
                \/ ledger' = [ledger EXCEPT ![w] = Append(@, amount)]
  BY <1>2, LedgerAssumption DEF Open
<1>3. ASSUME NEW change \in Movements, Post(w, change)
      PROVE  /\ balance' = [balance EXCEPT ![w] = @ + change] /\ change \in Int
             /\ balance[w] \in Nat /\ balance[w] + change \in Nat
             /\ balance[w] # Null
             /\ ledger' = [ledger EXCEPT ![w] = Append(@, change)]
  BY <1>3, <1>type, LedgerAssumption DEF Post
<1>4. CASE \E amount \in Openings : Open(w, amount)
  <2>1. PICK amount \in Openings : Open(w, amount) BY <1>4
  <2>2. balance'[w] = amount /\ Total(ledger[w]) = 0 /\ amount \in Nat
    BY <1>2, <1>type, <2>1
  <2>3. CASE amount = 0 /\ ledger' = ledger
    <3>1. UNCHANGED keys BY <2>3 DEF Commit, Stamp
    <3> QED BY <1>2, <2>1, <2>2, <2>3, <3>1
  <2>4. CASE ledger' = [ledger EXCEPT ![w] = Append(@, amount)]
    <3>1. amount \in Int /\ 0 + amount = amount BY <2>2
    <3>2. /\ Total(ledger'[w]) = Total(ledger[w]) + amount
          /\ \E k \in Keys : /\ keys' = [keys EXCEPT ![w] = Append(@, k)]
                             /\ \A e \in EntryKeys(w) : e.id # k.id
      BY <1>1, <2>4, <3>1
    <3>3. Total(ledger'[w]) = balance'[w] BY <2>2, <3>1, <3>2
    <3> QED BY <1>2, <2>1, <2>2, <2>4, <3>1, <3>2, <3>3
  <2> QED BY <1>2, <2>1, <2>3, <2>4
<1>5. CASE \E change \in Movements : Post(w, change)
  <2>1. PICK change \in Movements : Post(w, change) BY <1>5
  <2>2. /\ balance'[w] = balance[w] + change /\ Total(ledger[w]) = balance[w]
        /\ change \in Int /\ balance[w] + change \in Nat
    BY <1>3, <1>type, <2>1
  <2>3. balance' = [balance EXCEPT ![w] = balance[w] + change]
    BY <1>3, <2>1
  <2> QED BY <1>1, <1>3, <2>1, <2>2, <2>3
<1> QED BY <1>4, <1>5 DEF Commit

LEMMA CommitKeepsEntries ==
  ASSUME EntriesOK, NEW w \in Wallets, Commit(w)
  PROVE  EntriesOK'
<1>1. PICK b \in Nat : balance' = [balance EXCEPT ![w] = b] BY CommitAppends
<1>2. Total(ledger'[w]) = balance'[w] BY CommitAppends
<1>3. balance' \in [Wallets -> Nat \cup {Null}] /\ balance'[w] = b /\ b # Null
  BY <1>1, LedgerAssumption DEF EntriesOK
<1>4. CASE UNCHANGED <<ledger, keys>>
  <2>1. \A v \in Wallets : Total(ledger'[v]) = IF balance'[v] = Null THEN 0 ELSE balance'[v]
    BY <1>1, <1>2, <1>3, <1>4 DEF EntriesOK
  <2> QED BY <1>3, <1>4, <2>1 DEF EntriesOK
<1>5. ASSUME NEW x \in Int, NEW k \in Keys,
             ledger' = [ledger EXCEPT ![w] = Append(@, x)],
             keys' = [keys EXCEPT ![w] = Append(@, k)],
             \A e \in EntryKeys(w) : e.id # k.id
      PROVE  EntriesOK'
  <2>0. /\ ledger[w] \in Seq(Int) /\ keys[w] \in Seq(Keys)
        /\ Len(keys[w]) = Len(ledger[w])
        /\ \A i, j \in DOMAIN keys[w] : keys[w][i].id = keys[w][j].id => i = j
    BY DEF EntriesOK
  <2>1. /\ ledger'[w] = Append(ledger[w], x) /\ keys'[w] = Append(keys[w], k)
        /\ \A v \in Wallets \ {w} : ledger'[v] = ledger[v] /\ keys'[v] = keys[v]
                                    /\ balance'[v] = balance[v]
    BY <1>1, <1>5 DEF EntriesOK
  <2>2. ledger' \in [Wallets -> Seq(Int)] /\ keys' \in [Wallets -> Seq(Keys)]
    <3>1. Append(ledger[w], x) \in Seq(Int) /\ Append(keys[w], k) \in Seq(Keys)
      BY <2>0, AppendProperties
    <3> QED BY <1>5, <3>1 DEF EntriesOK
  <2>3. Len(keys'[w]) = Len(ledger'[w])
    BY <2>0, <2>1, AppendProperties
  <2>4. \A i, j \in DOMAIN keys'[w] : keys'[w][i].id = keys'[w][j].id => i = j
    <3> DEFINE n == Len(keys[w])
    <3>1. /\ n \in Nat /\ DOMAIN keys[w] = 1 .. n /\ DOMAIN keys'[w] = 1 .. n + 1
          /\ \A i \in 1 .. n : keys'[w][i] = keys[w][i]
          /\ keys'[w][n + 1] = k
      BY <2>0, <2>1, <2>2, AppendProperties, LenProperties
    <3>2. \A i \in 1 .. n : keys[w][i].id # k.id
      BY <1>5, <3>1 DEF EntryKeys, Range
    <3> HIDE DEF n
    <3> QED BY <2>0, <3>1, <3>2
  <2>5. \A v \in Wallets : Total(ledger'[v]) = IF balance'[v] = Null THEN 0 ELSE balance'[v]
    BY <1>2, <1>3, <2>1 DEF EntriesOK
  <2>6. \A v \in Wallets :
          /\ Len(keys'[v]) = Len(ledger'[v])
          /\ \A i, j \in DOMAIN keys'[v] : keys'[v][i].id = keys'[v][j].id => i = j
    <3> TAKE v \in Wallets
    <3>1. CASE v = w BY <2>3, <2>4, <3>1
    <3>2. CASE v # w
      <4>1. keys'[v] = keys[v] /\ ledger'[v] = ledger[v] BY <2>1, <3>2
      <4> QED BY <4>1 DEF EntriesOK
    <3> QED BY <3>1, <3>2
  <2> QED BY <1>3, <2>2, <2>5, <2>6 DEF EntriesOK
<1> QED BY <1>4, <1>5, CommitAppends

(* Commits leave alone what earlier entries added up to.                   *)
LEMMA AddsUpStays ==
  ASSUME EntriesOK, NEW w \in Wallets, Commit(w),
         NEW v \in Wallets, NEW n \in Nat, NEW amount, AddsUp(v, n, amount)
  PROVE  AddsUp(v, n, amount)'
<1>1. ledger[v] \in Seq(Int) /\ Len(ledger[v]) \in Nat /\ n <= Len(ledger[v])
  BY LenProperties DEF EntriesOK, AddsUp
<1>2. CASE ledger'[v] = ledger[v]
  BY <1>2 DEF AddsUp
<1>3. ASSUME NEW x \in Int, ledger'[v] = Append(ledger[v], x) PROVE AddsUp(v, n, amount)'
  <2>1. /\ Append(ledger[v], x) \in Seq(Int) /\ Len(Append(ledger[v], x)) = Len(ledger[v]) + 1
        /\ \A i \in 1 .. Len(ledger[v]) : Append(ledger[v], x)[i] = ledger[v][i]
        /\ \A i \in 1 .. Len(ledger[v]) : ledger[v][i] \in Int
    BY <1>1, AppendProperties, LenProperties
  <2>2. SubSeq(Append(ledger[v], x), 1, n) = SubSeq(ledger[v], 1, n)
    BY <1>1, <2>1
  <2>3. n <= Len(ledger'[v]) BY <1>1, <1>3, <2>1
  <2>4. SubSeq(ledger'[v], 1, n) = SubSeq(ledger[v], 1, n) BY <1>3, <2>2
  <2> QED BY <2>3, <2>4 DEF AddsUp
<1>4. ledger'[v] = ledger[v] \/ \E x \in Int : ledger'[v] = Append(ledger[v], x)
  <2>1. ledger \in [Wallets -> Seq(Int)] BY DEF EntriesOK
  <2>2. ASSUME NEW x \in Int, ledger' = [ledger EXCEPT ![w] = Append(@, x)]
        PROVE  ledger'[v] = ledger[v] \/ ledger'[v] = Append(ledger[v], x)
    BY <2>1, <2>2
  <2>3. ledger' = ledger \/ \E x \in Int : ledger' = [ledger EXCEPT ![w] = Append(@, x)]
    BY CommitAppends
  <2> QED BY <2>2, <2>3
<1> QED BY <1>2, <1>3, <1>4

(* An auditor's first statement reads a balance all entries so far explain. *)
LEMMA ReadWalletOK ==
  ASSUME AuditInv, NEW a \in Auditors, NEW w \in Wallets, ReadWallet(a, w)
  PROVE  AuditInv'
<1>0. EntriesOK /\ AuditsOK BY DEF AuditInv
<1>1. /\ balance[w] \in Nat /\ balance[w] # Null
      /\ ledger[w] \in Seq(Int) /\ Len(ledger[w]) \in Nat
      /\ Total(ledger[w]) = balance[w]
  BY <1>0, LenProperties DEF EntriesOK, ReadWallet
<1> DEFINE c == [wallet |-> w, stored |-> balance[w], before |-> Len(ledger[w])]
<1>2. /\ check' = [check EXCEPT ![a] = c]
      /\ UNCHANGED <<balance, ledger, keys, report>>
  BY DEF ReadWallet, bookVars
<1>3. c \in [wallet : Wallets \cup {Null}, stored : Nat, before : Nat]
  BY <1>1
<1>4. AddsUp(w, c.before, c.stored)
  <2>1. SubSeq(ledger[w], 1, Len(ledger[w])) = ledger[w] BY <1>1, SubSeqFull
  <2>2. AddsUp(w, Len(ledger[w]), balance[w])
    <3>1. Total(SubSeq(ledger[w], 1, Len(ledger[w]))) = balance[w]
      BY <1>1, <2>1, Zenon
    <3>2. Len(ledger[w]) <= Len(ledger[w]) BY <1>1
    <3> QED BY <3>1, <3>2, Zenon DEF AddsUp
  <2>3. c.before = Len(ledger[w]) /\ c.stored = balance[w] OBVIOUS
  <2> QED BY ONLY <2>2, <2>3
<1>5. c.wallet = w OBVIOUS
<1> HIDE DEF c
<1>6. EntriesOK' BY <1>0, <1>2 DEF EntriesOK
<1>7. \A v, n, x : AddsUp(v, n, x)' <=> AddsUp(v, n, x) BY <1>2 DEF AddsUp
<1>8. AuditsOK'
  <2>1. check' \in [Auditors -> [wallet : Wallets \cup {Null}, stored : Nat, before : Nat]]
    BY <1>0, <1>2, <1>3 DEF AuditsOK
  <2>2. ASSUME NEW b \in Auditors, check'[b] # NoCheck
        PROVE  /\ check'[b].wallet \in Wallets
               /\ AddsUp(check'[b].wallet, check'[b].before, check'[b].stored)
    <3>1. CASE b = a
      <4>1. check'[b] = c BY <1>0, <1>2, <3>1 DEF AuditsOK
      <4> QED BY <1>4, <1>5, <4>1
    <3>2. CASE b # a
      <4>1. check'[b] = check[b] BY <1>0, <1>2, <3>2 DEF AuditsOK
      <4> QED BY <1>0, <2>2, <4>1 DEF AuditsOK
    <3> QED BY <3>1, <3>2
  <2> QED BY <1>0, <1>2, <1>7, <2>1, <2>2 DEF AuditsOK
<1> QED BY <1>6, <1>8 DEF AuditInv

(* Its second statement adds up what is there by then.                     *)
LEMMA SumLedgerOK ==
  ASSUME AuditInv, NEW a \in Auditors, SumLedger(a)
  PROVE  AuditInv'
<1>0. EntriesOK /\ AuditsOK BY DEF AuditInv
<1> DEFINE c == check[a]
           l == ledger[c.wallet]
           r == [wallet |-> c.wallet, stored |-> c.stored, calculated |-> Total(l),
                 checked |-> Len(l), consistent |-> c.stored = Total(l),
                 before |-> c.before]
<1>1. /\ c # NoCheck /\ c.wallet \in Wallets /\ AddsUp(c.wallet, c.before, c.stored)
      /\ c \in [wallet : Wallets \cup {Null}, stored : Nat, before : Nat]
  BY <1>0 DEF SumLedger, AuditsOK
<1>2. l \in Seq(Int) /\ Len(l) \in Nat /\ Total(l) \in Int
  BY <1>0, <1>1, LenProperties, TotalType DEF EntriesOK
<1>3. /\ report' = [report EXCEPT ![a] = r] /\ check' = [check EXCEPT ![a] = NoCheck]
      /\ UNCHANGED <<balance, ledger, keys>>
  BY DEF SumLedger, bookVars
<1>4. /\ r \in Reports /\ r.wallet \in Wallets /\ r.before <= r.checked
      /\ AddsUp(r.wallet, r.before, r.stored)
      /\ r.consistent <=> r.stored = r.calculated
  BY <1>1, <1>2 DEF Reports, AddsUp
<1>5. AddsUp(r.wallet, r.checked, r.calculated)
  <2>1. SubSeq(l, 1, Len(l)) = l BY <1>2, SubSeqFull
  <2>2. AddsUp(c.wallet, Len(l), Total(l))
    <3>1. Total(SubSeq(l, 1, Len(l))) = Total(l) BY <2>1, Zenon
    <3>2. Len(l) <= Len(l) BY <1>2
    <3> QED BY <3>1, <3>2, Zenon DEF AddsUp
  <2>3. r.wallet = c.wallet /\ r.checked = Len(l) /\ r.calculated = Total(l) OBVIOUS
  <2> HIDE DEF r, l
  <2> QED BY ONLY <2>2, <2>3
<1> HIDE DEF r
<1>6. EntriesOK' BY <1>0, <1>3 DEF EntriesOK
<1>7. \A v, n, x : AddsUp(v, n, x)' <=> AddsUp(v, n, x) BY <1>3 DEF AddsUp
<1>8. AuditsOK'
  <2>1. report' \in [Auditors -> Reports]
    BY <1>0, <1>3, <1>4 DEF AuditsOK
  <2>2. check' \in [Auditors -> [wallet : Wallets \cup {Null}, stored : Nat, before : Nat]]
    BY <1>0, <1>3 DEF AuditsOK, NoCheck
  <2>3. ASSUME NEW b \in Auditors, check'[b] # NoCheck PROVE check'[b] = check[b]
    BY <1>0, <1>3, <2>3 DEF AuditsOK
  <2>4. ASSUME NEW b \in Auditors, report'[b] # NoReport
        PROVE  /\ report'[b].wallet \in Wallets
               /\ report'[b].before <= report'[b].checked
               /\ AddsUp(report'[b].wallet, report'[b].before, report'[b].stored)
               /\ AddsUp(report'[b].wallet, report'[b].checked, report'[b].calculated)
               /\ report'[b].consistent <=> report'[b].stored = report'[b].calculated
    <3>1. CASE b = a
      <4>1. report'[b] = r BY <1>0, <1>3, <3>1 DEF AuditsOK
      <4> QED BY <1>4, <1>5, <4>1
    <3>2. CASE b # a
      <4>1. report'[b] = report[b] BY <1>0, <1>3, <3>2 DEF AuditsOK
      <4> QED BY <1>0, <2>4, <4>1 DEF AuditsOK
    <3> QED BY <3>1, <3>2
  <2> QED BY <1>0, <1>7, <2>1, <2>2, <2>3, <2>4 DEF AuditsOK
<1> QED BY <1>6, <1>8 DEF AuditInv

LEMMA AuditInvHolds == Spec => []AuditInv
<1>1. Init => AuditInv
  <2> SUFFICES ASSUME Init PROVE AuditInv
    OBVIOUS
  <2>1. << >> \in Seq(Int) /\ << >> \in Seq(Keys) /\ Len(<< >>) = 0 /\ DOMAIN << >> = {}
    BY EmptySeq
  <2>2. EntriesOK
    BY <2>1, TotalType DEF Init, BookInit, EntriesOK
  <2>3. AuditsOK
    BY DEF Init, AuditsOK, NoCheck, NoReport, Reports
  <2> QED BY <2>2, <2>3 DEF AuditInv
<1>2. ASSUME AuditInv, [Next]_vars PROVE AuditInv'
  <2>0. ASSUME UNCHANGED <<bookVars, keys, auditVars>> PROVE AuditInv'
    <3>1. UNCHANGED <<balance, ledger, keys, check, report>>
      BY <2>0 DEF bookVars, auditVars
    <3>2. \A v, n, x : AddsUp(v, n, x)' <=> AddsUp(v, n, x) BY <3>1 DEF AddsUp
    <3>3. EntriesOK' /\ AuditsOK'
      BY <1>2, <3>1, <3>2 DEF AuditInv, EntriesOK, AuditsOK
    <3> QED BY <3>3 DEF AuditInv
  <2>1. ASSUME NEW w \in Wallets, Commit(w) PROVE AuditInv'
    <3>0. EntriesOK /\ AuditsOK BY <1>2 DEF AuditInv
    <3>1. EntriesOK' BY <2>1, <3>0, CommitKeepsEntries
    <3>2. UNCHANGED <<check, report>> BY <2>1 DEF Commit, auditVars
    <3>3. ASSUME NEW v \in Wallets, NEW n \in Nat, NEW x, AddsUp(v, n, x)
          PROVE  AddsUp(v, n, x)'
      BY <2>1, <3>0, <3>3, AddsUpStays
    <3>4. \A a \in Auditors : /\ check[a].before \in Nat
                              /\ report[a].before \in Nat /\ report[a].checked \in Nat
      BY <3>0 DEF AuditsOK, Reports
    <3>5. AuditsOK' BY <3>0, <3>2, <3>3, <3>4 DEF AuditsOK
    <3> QED BY <3>1, <3>5 DEF AuditInv
  <2>2. ASSUME NEW a \in Auditors, NEW w \in Wallets, ReadWallet(a, w) PROVE AuditInv'
    BY <1>2, <2>2, ReadWalletOK
  <2>3. ASSUME NEW a \in Auditors, SumLedger(a) PROVE AuditInv'
    BY <1>2, <2>3, SumLedgerOK
  <2>4. ASSUME NEW c \in Clients, NEW limit \in Limits, NEW w \in Wallets,
               FirstPage(c, w, limit)
        PROVE  AuditInv'
    BY <2>0, <2>4 DEF FirstPage
  <2>5. ASSUME NEW c \in Clients, NEW limit \in Limits, NextPage(c, limit) PROVE AuditInv'
    BY <2>0, <2>5 DEF NextPage
  <2>6. CASE UNCHANGED vars
    BY <2>0, <2>6 DEF vars
  <2> QED BY <1>2, <2>1, <2>2, <2>3, <2>4, <2>5, <2>6 DEF Next
<1> QED BY <1>1, <1>2, PTL DEF Spec

(* Types of the readers' state, and: every entry has one sort key, and     *)
(* no two entries of a wallet share an id.                                 *)
THEOREM ReadsTypeCorrect == Spec => []ReadsTypeOK
<1>1. ListInv /\ AuditInv => ReadsTypeOK
  BY DEF ListInv, ListTypeOK, AuditInv, EntriesOK, AuditsOK, ReadsTypeOK
<1> QED BY <1>1, ListInvHolds, AuditInvHolds, PTL

(* Whatever commits between its two statements, a reconciliation reports   *)
(* exactly the sum of those entries as the difference, at any length of    *)
(* the ledger: it invents no divergence and hides none.                    *)
THEOREM DivergencesAreExplained == Spec => []DivergenceIsExplained
<1>1. ASSUME AuditInv PROVE DivergenceIsExplained
  <2> SUFFICES ASSUME NEW a \in Auditors, report[a] # NoReport
               PROVE  LET r == report[a] IN
                      /\ r.calculated - r.stored =
                           Total(SubSeq(ledger[r.wallet], r.before + 1, r.checked))
                      /\ r.consistent <=> r.calculated = r.stored
    BY DEF DivergenceIsExplained
  <2> DEFINE r == report[a]
             l == ledger[r.wallet]
  <2>1. /\ r \in Reports /\ r.wallet \in Wallets /\ r.before <= r.checked
        /\ AddsUp(r.wallet, r.before, r.stored)
        /\ AddsUp(r.wallet, r.checked, r.calculated)
        /\ r.consistent <=> r.stored = r.calculated
    BY <1>1 DEF AuditInv, AuditsOK
  <2>2. /\ l \in Seq(Int) /\ r.before \in Nat /\ r.checked \in Nat
        /\ r.stored \in Int /\ r.calculated \in Int
        /\ r.checked <= Len(l)
        /\ Total(SubSeq(l, 1, r.before)) = r.stored
        /\ Total(SubSeq(l, 1, r.checked)) = r.calculated
    BY <1>1, <2>1 DEF AuditInv, EntriesOK, AddsUp, Reports
  <2> DEFINE d == Total(SubSeq(l, r.before + 1, r.checked))
  <2>3. r.calculated = r.stored + d
    <3> HIDE DEF r, l
    <3> QED BY <2>1, <2>2, TotalSplits
  <2>4. d \in Int
    <3>1. \A i \in 1 .. Len(l) : l[i] \in Int BY <2>2, LenProperties
    <3>2. /\ r.before + 1 \in Int /\ r.checked \in Int
          /\ \A i \in r.before + 1 .. r.checked : l[i] \in Int
      BY <2>2, <3>1
    <3> HIDE DEF r, l
    <3> QED BY <3>2, SubSeqProperties, TotalType
  <2>5. r.calculated - r.stored = d
    <3> HIDE DEF r, d
    <3> QED BY <2>2, <2>3, <2>4
  <2> QED BY <2>1, <2>5
<1> QED BY <1>1, AuditInvHolds, PTL
===============================================================================
