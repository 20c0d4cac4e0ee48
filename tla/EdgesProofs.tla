---------------------------- MODULE EdgesProofs -----------------------------
(***************************************************************************)
(* Proofs about the components around the database that share no state:    *)
(* the region code of a packet, its channel and sender, its frame, the     *)
(* subscriptions it comes by, the retries of its statements, and the       *)
(* ranking that goes out.                                                  *)
(***************************************************************************)
EXTENDS Regions, Extract, MeshPacket, MqttConsumer, BusyRetry, Leaderboard,
  RankingProofs

(***************************************************************************)
(* Regions.  The filter is what the settings say as soon as they are       *)
(* loaded, and a stored code is the topic's in capitals.                   *)
(***************************************************************************)
SettingsOK ==
  /\ raw # <<Blank>> => \A s \in Range(raw) : s \in SpelledWords
  /\ fallback \in SpelledWords
  /\ template \in {"any", "own"}

StoredOK ==
  /\ published \subseteq Codes
  /\ \A p \in stored : p.topic \in Codes /\ p.iata = ToUpper(p.topic)
  /\ stored # {} => state = "serving"
  /\ template = "any" => \A s \in published : \E p \in stored : p.topic = s

RegionsIInv ==
  /\ SettingsOK
  /\ StoredOK
  /\ state # "starting" => filters = ParseIATAFilters(raw, fallback)

LEMMA RegionsInitInv == RegionsInit => RegionsIInv
<1> SUFFICES ASSUME RegionsInit PROVE RegionsIInv
  OBVIOUS
<1>1. SettingsOK
  BY DEF RegionsInit, SettingsOK, Range
<1> QED
  BY <1>1 DEF RegionsInit, RegionsIInv, StoredOK

LEMMA RegionsNextInv ==
  RegionsIInv /\ [RegionsNext]_regionVars => RegionsIInv'
<1> SUFFICES ASSUME RegionsIInv, [RegionsNext]_regionVars PROVE RegionsIInv'
  OBVIOUS
<1> USE DEF RegionsIInv, settings
<1>1. CASE Load
  BY <1>1 DEF Load, SettingsOK, StoredOK
<1>2. CASE Publish
  <2>1. PICK s \in Codes \ published :
          /\ published' = published \cup {s}
          /\ stored' = IF Heard(s)
                       THEN stored \cup {[topic |-> s, iata |-> ParseTopic(s)]}
                       ELSE stored
    BY <1>2 DEF Publish
  <2>2. UNCHANGED <<settings, state, filters>> /\ state = "serving"
    BY <1>2 DEF Publish
  <2> DEFINE r == [topic |-> s, iata |-> ParseTopic(s)]
  <2>3. r.topic = s /\ r.iata = ToUpper(s)
    BY DEF ParseTopic
  <2>4. stored' = IF Heard(s) THEN stored \cup {r} ELSE stored
    BY <2>1
  <2> HIDE DEF r
  <2>5. StoredOK'
    BY <2>1, <2>2, <2>3, <2>4 DEF StoredOK, Heard
  <2> QED
    BY <2>2, <2>5 DEF SettingsOK
<1>3. CASE UNCHANGED regionVars
  BY <1>3 DEF regionVars, SettingsOK, StoredOK
<1> QED
  BY <1>1, <1>2, <1>3 DEF RegionsNext

\* The filter that the settings are parsed to lets the regions pass that the
\* operator asked for.
LEMMA FilterIsWhatWasAsked ==
  ASSUME SettingsOK, NEW s \in Codes
  PROVE  LET f == ParseIATAFilters(raw, fallback)
         IN  (f = {} \/ ToUpper(s) \in f) <=> AskedFor(s.word)
<1> DEFINE value == IF raw = <<Blank>> THEN <<fallback>> ELSE raw
           words == {e.word : e \in Range(value)}
           entries == {e \in Range(value) : e.word # ""}
           f == ParseIATAFilters(raw, fallback)
<1>1. Range(<<fallback>>) = {fallback}
  BY DEF Range
<1>2. \A e \in Range(value) : e \in SpelledWords
  BY <1>1 DEF SettingsOK
<1>3. AskedFor(s.word) <=>
        s.word \in words \/ words \cap AllWords # {} \/ words \subseteq {""}
  <2>1. words = IF raw = <<Blank>> THEN {fallback.word}
                ELSE {e.word : e \in Range(raw)}
    BY <1>1
  <2> HIDE DEF words
  <2> QED
    BY <2>1 DEF AskedFor
<1>4. f = IF \E e \in entries : IsAll(e) THEN {}
          ELSE {ToUpper(e) : e \in entries}
  BY DEF ParseIATAFilters
<1> HIDE DEF f, value
<1>5. (\E e \in entries : IsAll(e)) <=> words \cap AllWords # {}
  BY DEF IsAll, AllWords
<1>6. entries = {} <=> words \subseteq {""}
  OBVIOUS
<1>7. ASSUME NEW d \in SpelledWords, NEW e \in SpelledWords
      PROVE  ToUpper(d) = ToUpper(e) <=> d.word = e.word
  <2> DEFINE Upper == [word : Regions \cup AllWords \cup {""},
                       capitals : {TRUE}]
  <2>1. \A x \in SpelledWords : ToUpper(x) \in Upper /\ ToUpper(x).word = x.word
    BY DEF ToUpper, SpelledWords
  <2>2. \A x, y \in Upper : x.word = y.word => x = y
    <3>1. ASSUME NEW x \in Upper
          PROVE  x = [word |-> x.word, capitals |-> x.capitals]
      BY Zenon
    <3>2. \A x \in Upper : x.capitals \in {TRUE}
      BY Zenon
    <3>3. \A x \in Upper : x.capitals = TRUE
      BY <3>2, Zenon
    <3> QED
      BY <3>1, <3>3, Zenon
  <2> HIDE DEF Upper
  <2> QED
    BY <2>1, <2>2
<1>8. s \in SpelledWords /\ s.word # ""
  BY RegionsAssumption DEF Codes
<1>9. ToUpper(s) \in {ToUpper(e) : e \in entries} <=> s.word \in words
  <2>1. \A e \in entries : ToUpper(s) = ToUpper(e) <=> s.word = e.word
    BY <1>2, <1>7, <1>8
  <2>2. ToUpper(s) \in {ToUpper(e) : e \in entries}
          <=> \E e \in entries : s.word = e.word
    BY <2>1
  <2> QED
    BY <2>2, <1>8
<1> HIDE DEF words, entries
<1>10. (f = {} \/ ToUpper(s) \in f) <=> AskedFor(s.word)
  <2>1. CASE words \cap AllWords # {}
    BY <2>1, <1>3, <1>4, <1>5
  <2>2. CASE words \cap AllWords = {}
    <3>1. f = {ToUpper(e) : e \in entries}
      BY <2>2, <1>4, <1>5
    <3>2. f = {} <=> entries = {}
      BY <3>1
    <3> QED
      BY <2>2, <1>3, <1>6, <1>9, <3>1, <3>2
  <2> QED
    BY <2>1, <2>2
<1> QED
  BY <1>10 DEF f

\* A stored packet passes the filter exactly if the operator asked for its
\* region, and with the open template no packet goes unheard.
THEOREM RegionsShownAsAsked == RegionsSpec => []ShownIfAskedFor
<1>1. RegionsIInv => ShownIfAskedFor
  <2> SUFFICES ASSUME RegionsIInv PROVE ShownIfAskedFor
    OBVIOUS
  <2>1. ASSUME NEW p \in stored
        PROVE  PassesFilter(p.iata) <=> AskedFor(p.topic.word)
    <3>1. /\ p.topic \in Codes /\ p.iata = ToUpper(p.topic)
          /\ filters = ParseIATAFilters(raw, fallback) /\ SettingsOK
      BY DEF RegionsIInv, StoredOK
    <3> QED
      BY <3>1, FilterIsWhatWasAsked DEF PassesFilter
  <2> QED
    BY <2>1 DEF ShownIfAskedFor, RegionsIInv, StoredOK
<1> QED
  BY <1>1, RegionsInitInv, RegionsNextInv, PTL DEF RegionsSpec

-----------------------------------------------------------------------------
(***************************************************************************)
(* Channels.  Distinct drops no element, so every configured key is tried. *)
(***************************************************************************)
AddNew(out, e) == IF Contains(out, e) THEN out ELSE Append(out, e)

\* The equation of the recursive function inside the fold of Distinct.
DistinctEq(it, s) ==
  it = [x \in SUBSET DOMAIN s |->
          IF x = {} THEN <<>> ELSE AddNew(it[x \ {Max(x)}], s[Max(x)])]

LEMMA DistinctUnfolds ==
  ASSUME NEW T, NEW s \in Seq(T)
  PROVE  \E it : DistinctEq(it, s) /\ Distinct(s) = it[DOMAIN s]
<1> DEFINE N == Len(s)
           V == Seq(T)
           F == [p \in (1..N) \X V |-> AddNew(p[2], s[p[1]])]
<1>1. N \in Nat /\ DOMAIN s = 1..N
  OBVIOUS
<1>2. ASSUME NEW p \in (1..N) \X V PROVE AddNew(p[2], s[p[1]]) \in V
  BY DEF AddNew
<1>3. F \in [(1..N) \X V -> V] /\ <<>> \in V
  BY <1>2
<1>4. PICK g \in [SUBSET (1..N) -> V] : FoldEq(g, N, <<>>, F)
  <2> HIDE DEF F, V, N
  <2> QED
    BY <1>1, <1>3, FoldExists
<1>5. ASSUME NEW x \in SUBSET DOMAIN s, x # {}
      PROVE  F[<<Max(x), g[x \ {Max(x)}]>>] = AddNew(g[x \ {Max(x)}], s[Max(x)])
  <2>1. Max(x) \in 1..N
    BY <1>1, <1>5, MaxIsGreatest
  <2>2. g[x \ {Max(x)}] \in V
    BY <1>1
  <2> HIDE DEF V, N
  <2> QED
    BY <2>1, <2>2
<1>6. DistinctEq(g, s)
  <2> HIDE DEF F, V, N
  <2> QED
    BY <1>1, <1>4, <1>5 DEF FoldEq, DistinctEq
<1> DEFINE it == CHOOSE f : DistinctEq(f, s)
<1>7. DistinctEq(it, s)
  BY <1>6
<1>8. Distinct(s) = it[DOMAIN s]
  BY DEF Distinct, FoldLeft, MapThenFoldSet, DistinctEq, AddNew
<1> QED
  BY <1>7, <1>8

LEMMA DistinctKeepsAll ==
  ASSUME NEW T, NEW s \in Seq(T)
  PROVE  /\ Distinct(s) \in Seq(T)
         /\ \A i \in 1..Len(s) : Contains(Distinct(s), s[i])
<1>0. Len(s) \in Nat /\ DOMAIN s = 1..Len(s)
  OBVIOUS
<1>1. PICK it : DistinctEq(it, s) /\ Distinct(s) = it[DOMAIN s]
  BY DistinctUnfolds
<1>2. it[1..0] = <<>>
      /\ \A n \in 1..Len(s) : it[1..n] = AddNew(it[1..(n - 1)], s[n])
  <2>1. 1..0 \in SUBSET DOMAIN s /\ 1..0 = {}
    OBVIOUS
  <2>2. ASSUME NEW n \in 1..Len(s)
        PROVE  it[1..n] = AddNew(it[1..(n - 1)], s[n])
    <3>1. 1..n \in SUBSET DOMAIN s /\ 1..n # {} /\ n \in Nat \ {0}
      BY <1>0
    <3> QED
      BY <1>1, <3>1, MaxOfInterval DEF DistinctEq
  <2> QED
    BY <1>1, <2>1, <2>2 DEF DistinctEq
<1> DEFINE Good(n) == /\ it[1..n] \in Seq(T)
                      /\ \A i \in 1..n : Contains(it[1..n], s[i])
           G == {n \in Nat : n =< Len(s) => Good(n)}
<1>3. 0 \in G
  <2>1. it[1..0] \in Seq(T) /\ \A i \in 1..0 : Contains(it[1..0], s[i])
    BY <1>2
  <2> QED
    BY <2>1
<1>4. ASSUME NEW n \in Nat, n \in G PROVE n + 1 \in G
  <2> SUFFICES ASSUME n + 1 =< Len(s) PROVE Good(n + 1)
    OBVIOUS
  <2> DEFINE a == it[1..n]
             b == it[1..(n + 1)]
  <2>1. a \in Seq(T) /\ \A i \in 1..n : Contains(a, s[i])
    BY <1>4
  <2>2. b = AddNew(a, s[n + 1])
    BY <1>2
  <2> HIDE DEF a, b
  <2>3. b \in Seq(T) /\ Contains(b, s[n + 1])
    BY <2>1, <2>2 DEF AddNew, Contains
  <2>4. \A i \in 1..n : Contains(b, s[i])
    BY <2>1, <2>2 DEF AddNew, Contains
  <2>5. \A i \in 1..(n + 1) : i \in 1..n \/ i = n + 1
    OBVIOUS
  <2> QED
    BY <2>3, <2>4, <2>5 DEF b
<1>5. Len(s) \in G
  <2> HIDE DEF G
  <2> QED
    BY <1>3, <1>4, CountUp
<1> QED
  BY <1>0, <1>1, <1>5

LEMMA Joined ==
  ASSUME NEW T, NEW u \in Seq(T), NEW v \in Seq(T), NEW w, w = u \o v
  PROVE  /\ w \in Seq(T) /\ Len(w) = Len(u) + Len(v)
         /\ \A i \in 1..Len(u) : w[i] = u[i]
         /\ \A i \in 1..Len(v) : w[Len(u) + i] = v[i]
OBVIOUS

LEMMA FunctionIsSeq ==
  ASSUME NEW T, NEW n \in Nat, NEW f \in [1..n -> T]
  PROVE  f \in Seq(T) /\ Len(f) = n
OBVIOUS

LEMMA ConcatContains ==
  ASSUME NEW T, NEW u \in Seq(T), NEW v \in Seq(T)
  PROVE  /\ u \o v \in Seq(T)
         /\ \A e : Contains(u, e) \/ Contains(v, e) => Contains(u \o v, e)
<1> DEFINE w == u \o v
<1>1. /\ w \in Seq(T) /\ Len(w) = Len(u) + Len(v)
      /\ \A i \in 1..Len(u) : w[i] = u[i]
      /\ \A i \in 1..Len(v) : w[Len(u) + i] = v[i]
  OBVIOUS
<1>2. Len(u) \in Nat /\ Len(v) \in Nat
  OBVIOUS
<1> HIDE DEF w
<1>3. ASSUME NEW i \in 1..Len(u) PROVE i \in 1..Len(w)
  BY <1>1, <1>2
<1>4. ASSUME NEW i \in 1..Len(v) PROVE Len(u) + i \in 1..Len(w)
  BY <1>1, <1>2
<1>5. \A e : Contains(u, e) \/ Contains(v, e) => Contains(w, e)
  BY <1>1, <1>3, <1>4 DEF Contains
<1> QED
  BY <1>1, <1>5 DEF w

\* The configured keys are tried, and every channel that is listed has one.
LEMMA ConfiguredKeys ==
  ASSUME hashtags \in Seq(Spellings), private \in Seq(PrivateKeys)
  PROVE  /\ ChannelSecretKeys \in Seq(AnyKey)
         /\ \A k \in Listed : Contains(ChannelSecretKeys, k)
<1> DEFINE a == [i \in DOMAIN hashtags |-> DeriveHashtagKey(hashtags[i])]
           b == [i \in DOMAIN private |-> PrivateKey(private[i])]
           s == <<PublicKey>> \o a \o b
<1>1. /\ a \in Seq(AnyKey) /\ Len(a) = Len(hashtags)
      /\ \A i \in 1..Len(hashtags) : a[i] = KeyOf(Normal(hashtags[i]))
  <2>1. \A i \in 1..Len(hashtags) :
          DeriveHashtagKey(hashtags[i]) \in AnyKey
    BY DEF DeriveHashtagKey, AnyKey
  <2>2. \A i \in 1..Len(hashtags) :
          DeriveHashtagKey(hashtags[i]) = KeyOf(Normal(hashtags[i]))
    BY DEF DeriveHashtagKey
  <2> QED
    BY <2>1, <2>2
<1>2. /\ b \in Seq(AnyKey) /\ Len(b) = Len(private)
      /\ \A i \in 1..Len(private) : b[i] = PrivateKey(private[i])
  <2>1. \A i \in 1..Len(private) : PrivateKey(private[i]) \in AnyKey
    BY DEF AnyKey
  <2> QED
    BY <2>1
<1>3. PublicKey \in AnyKey
  BY DEF AnyKey
<1>4. ChannelSecretKeys = Distinct(s)
  BY DEF ChannelSecretKeys
<1> HIDE DEF a, b
<1>5. /\ s \in Seq(AnyKey)
      /\ Contains(s, PublicKey)
      /\ \A i \in 1..Len(a) : Contains(s, a[i])
      /\ \A i \in 1..Len(b) : Contains(s, b[i])
  <2>1. <<PublicKey>> \in Seq(AnyKey) /\ Contains(<<PublicKey>>, PublicKey)
    BY <1>3 DEF Contains
  <2>2. (\A i \in 1..Len(a) : Contains(a, a[i]))
        /\ \A i \in 1..Len(b) : Contains(b, b[i])
    BY DEF Contains
  <2>3. /\ <<PublicKey>> \o a \in Seq(AnyKey)
        /\ \A e : Contains(<<PublicKey>>, e) \/ Contains(a, e)
                   => Contains(<<PublicKey>> \o a, e)
    BY <1>1, <2>1, ConcatContains
  <2>4. /\ s \in Seq(AnyKey)
        /\ \A e : Contains(<<PublicKey>> \o a, e) \/ Contains(b, e)
                   => Contains(s, e)
    BY <1>2, <2>3, ConcatContains
  <2> QED
    BY <2>1, <2>2, <2>3, <2>4
<1> HIDE DEF s
<1>6. ASSUME NEW k \in Listed PROVE Contains(s, k)
  <2>1. CASE k = PublicKey
    BY <1>5, <2>1
  <2>2. CASE k \in {KeyOf(ch) : ch \in ConfiguredHashtagChannels}
    <3>1. PICK i \in 1..Len(hashtags) : k = KeyOf(Normal(hashtags[i]))
      BY <2>2 DEF ConfiguredHashtagChannels
    <3> QED
      BY <1>1, <1>5, <3>1
  <2>3. CASE k \in {PrivateKey(private[i]) : i \in DOMAIN private}
    <3>1. PICK i \in 1..Len(private) : k = PrivateKey(private[i])
      BY <2>3
    <3> QED
      BY <1>2, <1>5, <3>1
  <2> QED
    BY <2>1, <2>2, <2>3 DEF Listed
<1> QED
  BY <1>4, <1>5, <1>6, DistinctKeepsAll DEF Contains

\* The key that is found fits, and one is found if any fits.
LEMMA FittingKeyFits ==
  ASSUME ChannelSecretKeys \in Seq(AnyKey), NEW p \in OnAir, p.kind = "group"
  PROVE  /\ FittingKey(p) > 0 => ChannelSecretKeys[FittingKey(p)] \in p.fits
         /\ Contains(ChannelSecretKeys, p.key) => FittingKey(p) > 0
<1> DEFINE keys == ChannelSecretKeys
           I == {i \in 1..Len(keys) :
                   HashByte[keys[i]] = HashByte[p.key] /\ keys[i] \in p.fits}
<1>1. FittingKey(p) = IF I # {} THEN Min(I) ELSE 0
  BY DEF FittingKey, SelectInSeq
<1>2. I # {} => Min(I) \in I
  <2> SUFFICES ASSUME I # {} PROVE Min(I) \in I
    OBVIOUS
  <2>1. I \subseteq Nat
    OBVIOUS
  <2> HIDE DEF I
  <2>2. \E m \in I : \A x \in I : m =< x
    BY <2>1, LeastElement
  <2> QED
    BY <2>2 DEF Min
<1>3. Contains(keys, p.key) => I # {}
  <2>1. p.key \in p.fits
    BY DEF OnAir
  <2> QED
    BY <2>1 DEF Contains
<1> HIDE DEF keys
<1>4. I # {} => Min(I) > 0 /\ keys[Min(I)] \in p.fits
  BY <1>2
<1> HIDE DEF I
<1> QED
  BY <1>1, <1>3, <1>4 DEF keys

ExtractIInv ==
  /\ hashtags \in Seq(Spellings)
  /\ private \in Seq(PrivateKeys)
  /\ EveryListedChannelIsHeard
  /\ TilesHaveSenders

LEMMA ExtractInitInv == ExtractInit => ExtractIInv
<1> SUFFICES ASSUME ExtractInit PROVE ExtractIInv
  OBVIOUS
<1>1. hashtags \in Seq(Spellings)
  <2>1. PICK n \in 0..MaxHashtags : hashtags \in [1..n -> Spellings]
    BY DEF ExtractInit, BoundedSeq, SeqOf
  <2>2. n \in Nat
    BY ExtractAssumption
  <2> QED
    BY <2>1, <2>2
<1>2. private \in Seq(PrivateKeys)
  <2>1. PICK S \in SUBSET PrivateKeys : private = SetToSeq(S)
    BY DEF ExtractInit
  <2>2. IsFiniteSet(S)
    BY ExtractAssumption, FS_Subset
  <2>3. Cardinality(S) \in Nat /\ ExistsBijection(1..Cardinality(S), S)
    BY <2>2, FS_CardinalityType
  <2>4. \E f \in [1..Cardinality(S) -> S] : IsInjective(f)
    BY <2>3 DEF ExistsBijection, Bijection, Injection, IsInjective
  <2>5. private \in [1..Cardinality(S) -> S]
    BY <2>1, <2>4 DEF SetToSeq
  <2> QED
    BY <2>3, <2>5
<1> QED
  BY <1>1, <1>2
     DEF ExtractIInv, ExtractInit, EveryListedChannelIsHeard, TilesHaveSenders

\* A candidate is the sender of a tagged message.
LEMMA CandidateIsSender ==
  ASSUME ExtractIInv, NEW p \in OnAir, ExtractFromPacket(p).found
  PROVE  /\ p.text.sender # NoSender /\ p.text.tagged
         /\ ExtractFromPacket(p) = Candidate(p.text.sender)
<1>1. ~NoCandidate.found
  BY DEF NoCandidate
<1>2. ASSUME NEW t, ParseCandidateFromText(t).found
      PROVE  /\ t.sender # NoSender /\ t.tagged
             /\ ParseCandidateFromText(t) = Candidate(t.sender)
  BY <1>1, <1>2 DEF ParseCandidateFromText, ParseSender
<1>3. CASE p.kind = "group" /\ FittingKey(p) > 0
  <2>1. ParseCandidateFromText(DecryptGroupTextPayload(p)).found
    BY <1>3 DEF ExtractFromPacket
  <2>2. DecryptGroupTextPayload(p).sender # NoSender
    BY <1>2, <2>1
  <2>3. DecryptGroupTextPayload(p) = p.text
    BY <2>2 DEF DecryptGroupTextPayload, Noise
  <2> QED
    BY <1>2, <1>3, <2>1, <2>3 DEF ExtractFromPacket
<1>4. CASE ~(p.kind = "group" /\ FittingKey(p) > 0)
  <2>1. ExtractFromPacket(p) = ExtractFromPayload(p)
    BY <1>4 DEF ExtractFromPacket
  <2> QED
    BY <1>1, <1>2, <2>1 DEF ExtractFromPayload
<1> QED
  BY <1>3, <1>4

\* A tagged message in a listed channel gives a candidate.
LEMMA ListedGivesCandidate ==
  ASSUME ExtractIInv, NEW p \in OnAir,
         p.key \in Listed, p.fits \subseteq {p.key},
         p.text.sender # NoSender, p.text.tagged,
         p.text.sender.shape = "plain"
  PROVE  ExtractFromPacket(p) = Candidate(p.text.sender)
<1>1. ParseCandidateFromText(p.text) = Candidate(p.text.sender)
  BY DEF ParseCandidateFromText, ParseSender
<1>2. CASE p.kind = "group"
  <2>1. /\ ChannelSecretKeys \in Seq(AnyKey)
        /\ Contains(ChannelSecretKeys, p.key)
    BY ConfiguredKeys DEF ExtractIInv
  <2>2. FittingKey(p) > 0 /\ ChannelSecretKeys[FittingKey(p)] = p.key
    BY <1>2, <2>1, FittingKeyFits
  <2> QED
    BY <1>1, <1>2, <2>2 DEF ExtractFromPacket, DecryptGroupTextPayload
<1>3. CASE p.kind # "group"
  <2>1. p.kind = "text" \/ p.kind = "json"
    BY <1>3 DEF OnAir
  <2> QED
    BY <1>1, <1>3, <2>1 DEF ExtractFromPacket, ExtractFromPayload
<1> QED
  BY <1>2, <1>3

LEMMA ExtractNextInv ==
  ExtractIInv /\ [ExtractNext]_extractVars => ExtractIInv'
<1> SUFFICES ASSUME ExtractIInv, [ExtractNext]_extractVars PROVE ExtractIInv'
  OBVIOUS
<1>1. ASSUME NEW p \in OnAir, Send(p) PROVE ExtractIInv'
  <2> DEFINE c == ExtractFromPacket(p)
             said == p.text.sender # NoSender /\ p.text.tagged
             r == [sender |-> p.text.sender, key |-> p.key,
                   clear |-> p.fits \subseteq {p.key}]
             t == [username |-> c.username, display |-> c.display]
  <2>1. /\ sent' = IF said THEN sent \cup {r} ELSE sent
        /\ tiles' = IF c.found /\ ~\E x \in tiles : x.username = c.username
                    THEN tiles \cup {t} ELSE tiles
        /\ UNCHANGED <<hashtags, private>>
    BY <1>1 DEF Send, FileCandidate
  <2>2. /\ r.sender = p.text.sender /\ r.key = p.key
        /\ r.clear <=> p.fits \subseteq {p.key}
    OBVIOUS
  <2>3. t.username = c.username /\ t.display = c.display
    OBVIOUS
  <2>4. c.found => /\ said /\ c.display = p.text.sender
                   /\ c.username = NormalizeUsername(p.text.sender)
    BY CandidateIsSender DEF Candidate, ExtractIInv
  <2>5. /\ said /\ p.key \in Listed /\ p.fits \subseteq {p.key}
        /\ p.text.sender.shape = "plain"
        => c.found
    BY ListedGivesCandidate DEF Candidate, ExtractIInv
  <2>6. Listed' = Listed
    BY <2>1 DEF Listed, ConfiguredHashtagChannels
  <2> HIDE DEF c, said, r, t
  <2>7. TilesHaveSenders'
    BY <2>1, <2>2, <2>3, <2>4 DEF TilesHaveSenders, ExtractIInv
  <2>8. EveryListedChannelIsHeard'
    <3> SUFFICES ASSUME NEW s \in sent',
                        s.key \in Listed, s.clear, s.sender.shape = "plain"
                 PROVE  \E x \in tiles' :
                          x.username = NormalizeUsername(s.sender)
      BY <2>6 DEF EveryListedChannelIsHeard
    <3>1. CASE s \in sent
      BY <2>1, <3>1 DEF EveryListedChannelIsHeard, ExtractIInv
    <3>2. CASE s = r /\ said
      <4>1. c.found
        BY <2>2, <2>5, <3>2
      <4> QED
        BY <2>1, <2>2, <2>3, <2>4, <3>2, <4>1
    <3> QED
      BY <2>1, <3>1, <3>2
  <2> QED
    BY <2>1, <2>7, <2>8 DEF ExtractIInv
<1>2. CASE UNCHANGED extractVars
  BY <1>2 DEF extractVars, ExtractIInv, EveryListedChannelIsHeard,
     TilesHaveSenders, Listed, ConfiguredHashtagChannels
<1> QED
  BY <1>1, <1>2 DEF ExtractNext

\* Who sends a tagged message in a channel that is listed, under a name that
\* the parser takes, has a tile, whichever channels are configured, however
\* they are written, and whatever keys share a hash byte.
THEOREM ListedChannelsAreHeard == ExtractSpec => []EveryListedChannelIsHeard
<1>1. ExtractIInv => EveryListedChannelIsHeard
  BY DEF ExtractIInv
<1> QED
  BY <1>1, ExtractInitInv, ExtractNextInv, PTL DEF ExtractSpec

\* Every tile bears the name of somebody who sent a tagged message: what a
\* wrong key makes of a packet never becomes one.
THEOREM TilesAreEarned == ExtractSpec => []TilesHaveSenders
<1>1. ExtractIInv => TilesHaveSenders
  BY DEF ExtractIInv
<1> QED
  BY <1>1, ExtractInitInv, ExtractNextInv, PTL DEF ExtractSpec

-----------------------------------------------------------------------------
(***************************************************************************)
(* Frames.  What the decoder makes of a frame follows from what stands at  *)
(* each of its positions, so the invariant says that of the frame.         *)
(***************************************************************************)

\* Where the path of the frame ends.
PathEnd == PathLenAt(frame) + Len(hops) * origin.size

OriginOK ==
  /\ origin.header \in 0..63
  /\ origin.size \in 1..3
  /\ origin.payload \in Seq(Byte)

HopsOK ==
  /\ hops \in Seq([1..origin.size -> Byte])
  /\ Len(hops) =< MaxHops

FrameOK ==
  /\ frame \in Seq(Byte)
  /\ Len(frame) = PathEnd + Len(origin.payload)
  /\ frame[1] = origin.header
  /\ frame[PathLenAt(frame)] = PathLenByte(origin.size, Len(hops))
  /\ \A i \in 1..Len(hops), j \in 1..origin.size :
       frame[PathLenAt(frame) + (i - 1) * origin.size + j] = hops[i][j]
  /\ \A i \in 1..Len(origin.payload) : frame[PathEnd + i] = origin.payload[i]

PacketIInv == OriginOK /\ HopsOK /\ FrameOK

LEMMA PathLenAtIs == ASSUME NEW bytes PROVE PathLenAt(bytes) \in {2, 6}
BY DEF PathLenAt

\* Where the i-th of c hops of s bytes begins and ends.
LEMMA HopInPath ==
  ASSUME NEW s \in 1..3, NEW c \in Nat, NEW i \in 1..c
  PROVE  /\ (i - 1) * s \in Nat /\ i * s \in Nat /\ c * s \in Nat
         /\ i * s = (i - 1) * s + s
         /\ i * s =< c * s
<1>1. CASE s = 1
  BY <1>1
<1>2. CASE s = 2
  BY <1>2
<1>3. CASE s = 3
  BY <1>3
<1> QED
  BY <1>1, <1>2, <1>3

LEMMA HopIsCut ==
  ASSUME NEW bytes \in Seq(Byte), NEW first \in Nat, NEW last \in Nat,
         NEW size \in 1..3, last = first + size, last =< Len(bytes),
         NEW h \in [1..size -> Byte],
         \A j \in 1..size : bytes[first + j] = h[j]
  PROVE  SubSeq(bytes, first + 1, last) = h
<1> DEFINE cut == SubSeq(bytes, first + 1, last)
<1>1. /\ first \in Nat /\ first + size =< Len(bytes)
  OBVIOUS
<1>2. \A j \in 1..size : bytes[first + j] = h[j]
  OBVIOUS
<1>3. cut = SubSeq(bytes, first + 1, first + size)
  BY <1>1
<1>4. /\ SubSeq(bytes, first + 1, first + size) \in Seq(Byte)
      /\ Len(SubSeq(bytes, first + 1, first + size)) = size
      /\ \A j \in 1..size :
           SubSeq(bytes, first + 1, first + size)[j] = bytes[first + j]
  <2>1. first + 1 \in Int /\ first + size \in Int /\ first + 1 =< first + size
    BY <1>1
  <2>2. \A k \in (first + 1)..(first + size) : bytes[k] \in Byte
    BY <1>1
  <2>3. (first + size) - (first + 1) + 1 = size
    BY <1>1
  <2>4. \A j \in 1..size : (first + 1) + j - 1 = first + j
    BY <1>1
  <2> QED
    <3> DEFINE lo == first + 1
               hi == first + size
               z == SubSeq(bytes, lo, hi)
    <3>1. lo \in Int /\ hi \in Int /\ lo =< hi /\ hi - lo + 1 = size
      BY <2>1, <2>3
    <3>2. \A k \in lo..hi : bytes[k] \in Byte
      BY <2>2
    <3>3. \A j \in 1..size : lo + j - 1 = first + j
      BY <2>4
    <3> HIDE DEF lo, hi
    <3>4. /\ z \in Seq(Byte)
          /\ Len(z) = IF lo =< hi THEN hi - lo + 1 ELSE 0
          /\ \A j \in 1..(hi - lo + 1) : z[j] = bytes[lo + j - 1]
      BY <3>1, <3>2, SubSeqProperties
    <3> HIDE DEF z
    <3>5. /\ z \in Seq(Byte) /\ Len(z) = size
          /\ \A j \in 1..size : z[j] = bytes[first + j]
      BY <3>1, <3>3, <3>4
    <3> QED
      BY <3>5 DEF z, lo, hi
<1>5. h \in Seq(Byte) /\ Len(h) = size
  OBVIOUS
<1> HIDE DEF cut
<1>6. cut = h
  BY <1>2, <1>3, <1>4, <1>5, SeqEqual
<1> QED
  BY <1>6 DEF cut

LEMMA PayloadIsCut ==
  ASSUME NEW bytes \in Seq(Byte), NEW end \in Nat, end =< Len(bytes),
         NEW p \in Seq(Byte), Len(bytes) =< end + Len(p),
         \A i \in 1..(Len(bytes) - end) : bytes[end + i] = p[i]
  PROVE  SubSeq(bytes, end + 1, Len(bytes)) = SubSeq(p, 1, Len(bytes) - end)
<1> DEFINE m == Len(bytes) - end
           a == SubSeq(bytes, end + 1, Len(bytes))
           b == SubSeq(p, 1, m)
<1>1. m \in Nat /\ m =< Len(p) /\ Len(bytes) = end + m
  OBVIOUS
<1>2. \A i \in 1..m : bytes[end + i] = p[i]
  OBVIOUS
<1> HIDE DEF m
<1>3. /\ a \in Seq(Byte) /\ Len(a) = m
      /\ \A i \in 1..m : a[i] = bytes[end + i]
  BY <1>1
<1>4. /\ b \in Seq(Byte) /\ Len(b) = m
      /\ \A i \in 1..m : b[i] = p[i]
  BY <1>1
<1> HIDE DEF a, b
<1>5. a = b
  BY <1>2, <1>3, <1>4, SeqEqual
<1> QED
  BY <1>5 DEF a, b, m

LEMMA PathEndIs ==
  ASSUME OriginOK, HopsOK
  PROVE  /\ Len(hops) \in 0..63
         /\ Len(hops) * origin.size \in Nat
         /\ PathEnd \in Nat /\ PathLenAt(frame) =< PathEnd
<1>1. Len(hops) \in Nat /\ Len(hops) =< MaxHops
  BY DEF HopsOK
<1>2. Len(hops) \in 0..63
  <2>1. MaxHops \in 0..63
    BY PacketAssumption
  <2>2. hops \in Seq([1..origin.size -> Byte])
    BY DEF HopsOK
  <2> DEFINE n == Len(hops)
  <2>3. n \in Nat /\ n =< MaxHops /\ MaxHops \in 0..63
    BY <1>1, <2>1
  <2> HIDE DEF n
  <2>4. n \in 0..63
    BY <2>3
  <2> QED
    BY <2>4 DEF n
<1>3. Len(hops) * origin.size \in Nat
  <2>1. CASE origin.size = 1
    BY <1>1, <2>1
  <2>2. CASE origin.size = 2
    BY <1>1, <2>2
  <2>3. CASE origin.size = 3
    BY <1>1, <2>3
  <2> QED
    BY <2>1, <2>2, <2>3 DEF OriginOK
<1> QED
  BY <1>2, <1>3, PathLenAtIs DEF PathEnd

\* The path length byte gives the size and the number of the hops.
LEMMA PathLenByteDecodes ==
  ASSUME NEW s \in 1..3, NEW c \in 0..63
  PROVE  /\ PathLenByte(s, c) \in Byte
         /\ BytesPerHop(PathLenByte(s, c)) = s
         /\ PathLen(PathLenByte(s, c)) = c
BY DEF PathLenByte, BytesPerHop, PathLen, Byte

\* The first n bytes of the frame are malformed while they do not hold the
\* path; then they give the whole path and the payload so far.
LEMMA PrefixDecodes ==
  ASSUME PacketIInv, NEW n \in 0..Len(frame)
  PROVE  DecodePacket(SubSeq(frame, 1, n)) =
           IF n < PathEnd THEN Malformed
           ELSE [payloadType |-> PayloadType(origin.header),
                 path |-> hops,
                 payload |-> SubSeq(origin.payload, 1, n - PathEnd)]
<1> DEFINE bytes == SubSeq(frame, 1, n)
           at == PathLenAt(frame)
           size == origin.size
           count == Len(hops)
           message == origin.payload
           header == origin.header
<1>1. /\ frame \in Seq(Byte) /\ Len(frame) \in Nat /\ n \in Nat
      /\ n =< Len(frame)
      /\ size \in 1..3 /\ count \in 0..63 /\ count * size \in Nat
      /\ at \in {2, 6} /\ PathEnd = at + count * size /\ PathEnd \in Nat
      /\ message \in Seq(Byte) /\ Len(message) \in Nat
      /\ Len(frame) = PathEnd + Len(message)
  BY PathEndIs, PathLenAtIs
     DEF PacketIInv, OriginOK, FrameOK, PathEnd
<1>2. /\ bytes \in Seq(Byte) /\ Len(bytes) = n
      /\ \A i \in 1..n : bytes[i] = frame[i]
  BY <1>1
<1>3. /\ frame[1] = header /\ header \in 0..63
      /\ frame[at] = PathLenByte(size, count)
      /\ hops \in Seq([1..size -> Byte])
      /\ \A i \in 1..count, j \in 1..size :
           frame[at + (i - 1) * size + j] = hops[i][j]
      /\ \A i \in 1..Len(message) : frame[PathEnd + i] = message[i]
  BY DEF PacketIInv, OriginOK, HopsOK, FrameOK
<1>4. n >= 2 => PathLenAt(bytes) = at
  BY <1>1, <1>2 DEF PathLenAt
<1>5. hops = [i \in 1..count |-> hops[i]]
  BY <1>3
<1> HIDE DEF bytes, at, size, count, message, header
<1>6. CASE n < 2 \/ n < at
  <2>1. DecodePacket(bytes) = Malformed
    BY <1>1, <1>2, <1>4, <1>6 DEF DecodePacket
  <2> QED
    BY <1>1, <1>6, <2>1 DEF bytes
<1>7. CASE n >= 2 /\ n >= at
  <2>1. bytes[at] = PathLenByte(size, count) /\ bytes[1] = header
    BY <1>1, <1>2, <1>3, <1>7
  <2>2. BytesPerHop(bytes[at]) = size /\ PathLen(bytes[at]) = count
    BY <1>1, <2>1, PathLenByteDecodes
  <2>3. PayloadVersion(bytes[1]) = 0
    BY <1>3, <2>1 DEF PayloadVersion
  <2>4. DecodePacket(bytes) =
          IF n < PathEnd THEN Malformed
          ELSE [payloadType |-> PayloadType(header),
                path |->
                  [i \in 1..count |->
                     SubSeq(bytes, at + (i - 1) * size + 1, at + i * size)],
                payload |-> SubSeq(bytes, PathEnd + 1, n)]
    <3>1. ~(Len(bytes) < 2 \/ Len(bytes) < PathLenAt(bytes)) /\ ~(size > 3)
      BY <1>1, <1>2, <1>4, <1>7
    <3> QED
      BY <1>1, <1>2, <1>4, <1>7, <2>1, <2>2, <2>3, <3>1 DEF DecodePacket
  <2>5. CASE n < PathEnd
    BY <2>4, <2>5 DEF bytes
  <2>6. CASE n >= PathEnd
    <3>1. ASSUME NEW i \in 1..count
          PROVE  SubSeq(bytes, at + (i - 1) * size + 1, at + i * size) = hops[i]
      <4> DEFINE first == at + (i - 1) * size
                 last == at + i * size
      <4>1. /\ first \in Nat /\ last \in Nat
            /\ last = first + size /\ last =< n
        <5>1. /\ (i - 1) * size \in Nat /\ i * size \in Nat
              /\ i * size = (i - 1) * size + size
              /\ i * size =< count * size
          BY <1>1, HopInPath
        <5> QED
          BY <1>1, <2>6, <5>1
      <4>2. \A j \in 1..size : frame[first + j] = hops[i][j]
        BY <1>3
      <4> HIDE DEF first, last
      <4>3. ASSUME NEW j \in 1..size PROVE bytes[first + j] = hops[i][j]
        <5>1. first + j \in 1..n
          BY <1>1, <4>1
        <5>2. bytes[first + j] = frame[first + j]
          BY <1>2, <5>1
        <5> QED
          BY <4>2, <5>2
      <4>4. hops[i] \in [1..size -> Byte]
        BY <1>3 DEF count
      <4>5. SubSeq(bytes, first + 1, last) = hops[i]
        BY <1>1, <1>2, <4>1, <4>3, <4>4, HopIsCut
      <4> QED
        BY <4>5 DEF first, last
    <3>2. SubSeq(bytes, PathEnd + 1, n) = SubSeq(message, 1, n - PathEnd)
      <4>1. ASSUME NEW i \in 1..(n - PathEnd)
            PROVE  bytes[PathEnd + i] = message[i]
        <5>1. PathEnd + i \in 1..n /\ i \in 1..Len(message)
          BY <1>1, <2>6
        <5> QED
          BY <1>2, <1>3, <5>1
      <4> QED
        BY <1>1, <1>2, <2>6, <4>1, PayloadIsCut
    <3> QED
      BY <1>1, <1>5, <2>4, <2>6, <3>1, <3>2 DEF bytes, message, header
  <2> QED
    BY <1>1, <2>5, <2>6
<1> QED
  BY <1>1, <1>6, <1>7

LEMMA FourBytes ==
  ASSUME NEW f \in [1..4 -> Byte] PROVE f \in Seq(Byte) /\ Len(f) = 4
<1>1. 4 \in Nat
  OBVIOUS
<1> QED
  BY <1>1, FunctionIsSeq

LEMMA PacketInitInv == PacketInit => PacketIInv
<1> SUFFICES ASSUME NEW header \in Headers, NEW codes \in TransportCodes,
                    NEW size \in 1..3, NEW payload \in Payloads,
                    Originate(header, codes, size, payload)
             PROVE  PacketIInv
  BY DEF PacketInit
<1> DEFINE start == <<header>> \o (IF HasTransportCodes(header)
                                  THEN codes ELSE <<>>)
           b == PathLenByte(size, 0)
           at == IF HasTransportCodes(header) THEN 6 ELSE 2
           front == start \o <<b>>
<1>1. /\ header \in 0..63 /\ header \in Byte
      /\ payload \in Seq(Byte) /\ codes \in [1..4 -> Byte] /\ b \in Byte
  <2>1. /\ header \in 0..63 /\ payload \in Seq(Byte)
        /\ codes \in [1..4 -> Byte]
    BY PacketAssumption
  <2>2. b \in Byte
    BY PathLenByteDecodes
  <2> QED
    BY <2>1, <2>2 DEF Byte
<1>2. /\ origin = [header |-> header, size |-> size, payload |-> payload]
      /\ hops = <<>> /\ frame = front \o payload
  BY DEF Originate
<1>3. start \in Seq(Byte) /\ Len(start) = at - 1 /\ start[1] = header
  <2> DEFINE x == IF HasTransportCodes(header) THEN codes ELSE <<>>
  <2>1. x \in Seq(Byte) /\ Len(x) = at - 2
    <3> HIDE DEF b, front, start
    <3>1. codes \in Seq(Byte) /\ Len(codes) = 4
      BY <1>1, FourBytes
    <3>2. CASE HasTransportCodes(header)
      <4>1. x = codes /\ at = 6
        BY <3>2
      <4> HIDE DEF x, at
      <4> QED
        BY <3>1, <4>1
    <3>3. CASE ~HasTransportCodes(header)
      <4>1. x = <<>> /\ at = 2
        BY <3>3
      <4> HIDE DEF x, at
      <4> QED
        BY <4>1
    <3> QED
      BY <3>2, <3>3
  <2>2. /\ <<header>> \in Seq(Byte) /\ Len(<<header>>) = 1
        /\ <<header>>[1] = header
    BY <1>1
  <2> HIDE DEF x, at
  <2>3. start = <<header>> \o x
    BY DEF x
  <2> DEFINE u == <<header>>
  <2>4. start = u \o x /\ u \in Seq(Byte) /\ Len(u) = 1 /\ u[1] = header
    BY <2>2, <2>3
  <2> HIDE DEF start, u
  <2>5. /\ start \in Seq(Byte) /\ Len(start) = Len(u) + Len(x)
        /\ \A i \in 1..Len(u) : start[i] = u[i]
    <3>1. u \in Seq(Byte) /\ x \in Seq(Byte) /\ start = u \o x
      BY <2>1, <2>4
    <3> QED
      BY <3>1, Joined
  <2>6. at \in {2, 6}
    BY DEF at
  <2> QED
    BY <2>1, <2>4, <2>5, <2>6
<1> HIDE DEF start, b
<1>4. /\ front \in Seq(Byte) /\ Len(front) = at
      /\ front[1] = header /\ front[at] = b
  BY <1>1, <1>3, Joined
<1>5. at \in {2, 6}
  OBVIOUS
<1> HIDE DEF at, front
<1>6. /\ frame \in Seq(Byte) /\ Len(frame) = at + Len(payload)
      /\ frame[1] = header /\ frame[at] = b
      /\ \A i \in 1..Len(payload) : frame[at + i] = payload[i]
  BY <1>1, <1>2, <1>4, <1>5
<1>7. PathLenAt(frame) = at
  BY <1>6 DEF PathLenAt, at
<1>8. Len(hops) = 0 /\ 0 * size = 0 /\ hops \in Seq([1..size -> Byte])
  BY <1>2
<1>9. PathEnd = at
  BY <1>2, <1>5, <1>7, <1>8 DEF PathEnd
<1>10. OriginOK /\ HopsOK
  <2>1. MaxHops \in Nat
    BY PacketAssumption
  <2> QED
    BY <1>1, <1>2, <1>8, <2>1 DEF OriginOK, HopsOK
<1>11. FrameOK
  <2>1. origin.header = header /\ origin.size = size /\ origin.payload = payload
    BY <1>2
  <2> QED
    BY <1>6, <1>7, <1>8, <1>9, <2>1 DEF FrameOK, b
<1> QED
  BY <1>10, <1>11 DEF PacketIInv

\* A byte is replaced and a hop is put in; what stands where then.
Splice(f, at, end, b, h) ==
  SubSeq(f, 1, at - 1) \o <<b>> \o SubSeq(f, at + 1, end)
    \o h \o SubSeq(f, end + 1, Len(f))

IsSpliced(g, f, at, end, b, h) ==
  /\ g \in Seq(Byte) /\ Len(g) = Len(f) + Len(h)
  /\ \A i \in 1..end : g[i] = IF i = at THEN b ELSE f[i]
  /\ \A i \in 1..Len(h) : g[end + i] = h[i]
  /\ \A i \in 1..(Len(f) - end) : g[end + Len(h) + i] = f[end + i]

LEMMA Spliced ==
  ASSUME NEW f \in Seq(Byte), NEW at \in 1..Len(f), NEW end \in at..Len(f),
         NEW b \in Byte, NEW h \in Seq(Byte)
  PROVE  IsSpliced(Splice(f, at, end, b, h), f, at, end, b, h)
<1> DEFINE x1 == SubSeq(f, 1, at - 1)
           x2 == x1 \o <<b>>
           y == SubSeq(f, at + 1, end)
           x3 == x2 \o y
           x4 == x3 \o h
           z == SubSeq(f, end + 1, Len(f))
           g == Splice(f, at, end, b, h)
<1>1. /\ Len(f) \in Nat /\ at \in Nat /\ end \in Nat /\ Len(h) \in Nat
      /\ 1 =< at /\ at =< end /\ end =< Len(f)
  OBVIOUS
<1>2. /\ x1 \in Seq(Byte) /\ Len(x1) = at - 1
      /\ \A i \in 1..(at - 1) : x1[i] = f[i]
  BY <1>1
<1>3. /\ y \in Seq(Byte) /\ Len(y) = end - at
      /\ \A i \in 1..(end - at) : y[i] = f[at + i]
  <2>1. \A i \in (at + 1)..end : f[i] \in Byte
    BY <1>1
  <2>2. \A i \in 1..(end - at) : (at + 1) + i - 1 = at + i
    BY <1>1
  <2> QED
    BY <1>1, <2>1, <2>2, SubSeqProperties
<1>4. /\ z \in Seq(Byte) /\ Len(z) = Len(f) - end
      /\ \A i \in 1..(Len(f) - end) : z[i] = f[end + i]
  BY <1>1
<1>5. g = x4 \o z
  BY DEF Splice
<1> HIDE DEF x1, y, z, g
<1>6. /\ x2 \in Seq(Byte) /\ Len(x2) = at
      /\ \A i \in 1..at : x2[i] = IF i = at THEN b ELSE f[i]
  <2>1. <<b>> \in Seq(Byte) /\ Len(<<b>>) = 1 /\ <<b>>[1] = b
    OBVIOUS
  <2> DEFINE v == <<b>>
  <2>2. x2 = x1 \o v /\ v \in Seq(Byte) /\ Len(v) = 1 /\ v[1] = b
    BY <2>1
  <2> HIDE DEF x2, v
  <2>3. /\ x2 \in Seq(Byte) /\ Len(x2) = Len(x1) + Len(v)
        /\ \A i \in 1..Len(x1) : x2[i] = x1[i]
        /\ \A i \in 1..Len(v) : x2[Len(x1) + i] = v[i]
    <3>1. x1 \in Seq(Byte) /\ v \in Seq(Byte) /\ x2 = x1 \o v
      BY <1>2, <2>2
    <3> QED
      BY <3>1, Joined
  <2> QED
    BY <1>1, <1>2, <2>2, <2>3
<1> HIDE DEF x2
<1>7. /\ x3 \in Seq(Byte) /\ Len(x3) = end
      /\ \A i \in 1..end : x3[i] = IF i = at THEN b ELSE f[i]
  <2>1. x3 = x2 \o y
    OBVIOUS
  <2> HIDE DEF x3
  <2>2. /\ x3 \in Seq(Byte) /\ Len(x3) = at + (end - at)
        /\ \A i \in 1..at : x3[i] = x2[i]
        /\ \A i \in 1..(end - at) : x3[at + i] = f[at + i]
    <3>1. /\ x3 \in Seq(Byte) /\ Len(x3) = Len(x2) + Len(y)
          /\ \A i \in 1..Len(x2) : x3[i] = x2[i]
          /\ \A i \in 1..Len(y) : x3[Len(x2) + i] = y[i]
      <4>1. x2 \in Seq(Byte) /\ y \in Seq(Byte) /\ x3 = x2 \o y
        BY <1>3, <1>6, <2>1
      <4> QED
        BY <4>1, Joined
    <3> QED
      BY <1>3, <1>6, <3>1
  <2>3. ASSUME NEW i \in 1..end
        PROVE  x3[i] = IF i = at THEN b ELSE f[i]
    <3>1. CASE i =< at
      BY <1>1, <1>6, <2>2, <3>1
    <3>2. CASE i > at
      <4>1. i - at \in 1..(end - at) /\ at + (i - at) = i /\ i # at
        BY <1>1, <3>2
      <4>2. x3[at + (i - at)] = f[at + (i - at)]
        BY <2>2, <4>1
      <4> QED
        BY <4>1, <4>2
    <3> QED
      BY <1>1, <3>1, <3>2
  <2> QED
    BY <1>1, <2>2, <2>3
<1> HIDE DEF x3
<1>8. /\ x4 \in Seq(Byte) /\ Len(x4) = end + Len(h)
      /\ \A i \in 1..end : x4[i] = IF i = at THEN b ELSE f[i]
      /\ \A i \in 1..Len(h) : x4[end + i] = h[i]
  <2>1. x4 = x3 \o h
    OBVIOUS
  <2> HIDE DEF x4
  <2> QED
    <3>1. /\ x4 \in Seq(Byte) /\ Len(x4) = Len(x3) + Len(h)
          /\ \A i \in 1..Len(x3) : x4[i] = x3[i]
          /\ \A i \in 1..Len(h) : x4[Len(x3) + i] = h[i]
      <4>1. x3 \in Seq(Byte) /\ h \in Seq(Byte) /\ x4 = x3 \o h
        BY <1>7, <2>1
      <4> QED
        BY <4>1, Joined
    <3> QED
      BY <1>7, <3>1
<1> HIDE DEF x4
<1> DEFINE w == x4 \o z
<1>9. /\ w \in Seq(Byte) /\ Len(w) = end + Len(h) + (Len(f) - end)
      /\ \A i \in 1..(end + Len(h)) : w[i] = x4[i]
      /\ \A i \in 1..(Len(f) - end) : w[end + Len(h) + i] = z[i]
  <2>1. x4 \in Seq(Byte) /\ z \in Seq(Byte)
    BY <1>4, <1>8
  <2>2. /\ w \in Seq(Byte) /\ Len(w) = Len(x4) + Len(z)
        /\ \A i \in 1..Len(x4) : w[i] = x4[i]
        /\ \A i \in 1..Len(z) : w[Len(x4) + i] = z[i]
    BY <2>1
  <2> HIDE DEF w
  <2> QED
    BY <1>4, <1>8, <2>2
<1> HIDE DEF w
<1>10. /\ \A i \in 1..end : i \in 1..(end + Len(h))
       /\ \A i \in 1..Len(h) : end + i \in 1..(end + Len(h))
       /\ end + Len(h) + (Len(f) - end) = Len(f) + Len(h)
  BY <1>1
<1>11. g = w
  BY <1>5 DEF w
<1> QED
  BY <1>4, <1>8, <1>9, <1>10, <1>11 DEF g, IsSpliced

LEMMA PacketNextInv ==
  PacketIInv /\ [PacketNext]_packetVars => PacketIInv'
<1>1. ASSUME PacketIInv, NEW hop \in [1..origin.size -> PathBytes], Repeat(hop)
      PROVE  PacketIInv'
  <2> DEFINE at == PathLenAt(frame)
             size == origin.size
             c == Len(hops)
             end == PathEnd
             b == PathLenByte(size, c + 1)
             p == origin.payload
  <2>1. /\ at \in {2, 6} /\ size \in 1..3 /\ c \in Nat /\ c + 1 \in 0..63
        /\ c < MaxHops /\ MaxHops \in Nat
        /\ c * size \in Nat /\ (c + 1) * size = c * size + size
        /\ end = at + c * size /\ p \in Seq(Byte)
        /\ frame \in Seq(Byte) /\ Len(frame) = end + Len(p)
        /\ Len(p) \in Nat
    <3>1. MaxHops \in 0..63 /\ c < MaxHops
      BY <1>1, PacketAssumption DEF Repeat
    <3>2. c \in Nat /\ c * size \in Nat
      BY <1>1, PathEndIs DEF PacketIInv
    <3>3. size \in 1..3 /\ p \in Seq(Byte) /\ Len(p) \in Nat
      BY <1>1 DEF PacketIInv, OriginOK
    <3>4. frame \in Seq(Byte) /\ Len(frame) = end + Len(p)
      BY <1>1 DEF PacketIInv, FrameOK
    <3>5. end = at + c * size /\ at \in {2, 6}
      BY PathLenAtIs DEF PathEnd
    <3> HIDE DEF size, c, p, end, at
    <3>6. (c + 1) * size = c * size + size
      BY <3>2, <3>3
    <3>7. c + 1 \in 0..63 /\ MaxHops \in Nat
      BY <3>1, <3>2
    <3> QED
      BY <3>1, <3>2, <3>3, <3>4, <3>5, <3>6, <3>7
  <2>2. /\ frame[1] = origin.header
        /\ \A i \in 1..c, j \in 1..size :
             frame[at + (i - 1) * size + j] = hops[i][j]
        /\ \A i \in 1..Len(p) : frame[end + i] = p[i]
        /\ hops \in Seq([1..size -> Byte])
    BY <1>1 DEF PacketIInv, FrameOK, HopsOK
  <2>3. /\ hops' = Append(hops, hop) /\ origin' = origin
        /\ frame' =
             SubSeq(frame, 1, at - 1) \o <<b>> \o SubSeq(frame, at + 1, end)
                      \o hop \o SubSeq(frame, end + 1, Len(frame))
    BY <1>1 DEF Repeat, PathEnd
  <2>4. hop \in [1..size -> Byte]
    BY PacketAssumption
  <2>5. b \in Byte
    BY <2>1, PathLenByteDecodes
  <2> HIDE DEF at, size, c, end, b, p
  <2>6. hop \in Seq(Byte) /\ Len(hop) = size
    <3>1. size \in Nat
      BY <2>1
    <3> QED
      BY <2>4, <3>1, FunctionIsSeq
  <2>7. /\ frame' \in Seq(Byte) /\ Len(frame') = Len(frame) + size
        /\ \A i \in 1..end : frame'[i] = IF i = at THEN b ELSE frame[i]
        /\ \A i \in 1..size : frame'[end + i] = hop[i]
        /\ \A i \in 1..(Len(frame) - end) :
             frame'[end + size + i] = frame[end + i]
    <3>1. at \in 1..Len(frame) /\ end \in at..Len(frame)
      BY <2>1
    <3>2. frame \in Seq(Byte)
      BY <2>1
    <3>3. hop \in Seq(Byte)
      BY <2>6
    <3>4. /\ frame' \in Seq(Byte) /\ Len(frame') = Len(frame) + Len(hop)
          /\ \A i \in 1..end : frame'[i] = IF i = at THEN b ELSE frame[i]
          /\ \A i \in 1..Len(hop) : frame'[end + i] = hop[i]
          /\ \A i \in 1..(Len(frame) - end) :
               frame'[end + Len(hop) + i] = frame[end + i]
      <4>1. frame' = Splice(frame, at, end, b, hop)
        BY <2>3 DEF Splice
      <4>2. IsSpliced(frame', frame, at, end, b, hop)
        BY <2>5, <3>1, <3>2, <3>3, <4>1, Spliced
      <4> QED
        BY <4>2 DEF IsSpliced
    <3> QED
      BY <2>6, <3>4
  <2>8. /\ hops' \in Seq([1..size -> Byte]) /\ Len(hops') = c + 1
        /\ hops'[c + 1] = hop /\ \A i \in 1..c : hops'[i] = hops[i]
    <3> DEFINE Hop == [1..size -> Byte]
    <3>1. hops \in Seq(Hop) /\ hop \in Hop /\ hops' = Append(hops, hop)
      BY <2>2, <2>3, <2>4
    <3> HIDE DEF Hop
    <3>2. /\ hops' \in Seq(Hop) /\ Len(hops') = Len(hops) + 1
          /\ hops'[Len(hops) + 1] = hop
          /\ \A i \in 1..Len(hops) : hops'[i] = hops[i]
      BY <3>1
    <3> QED
      BY <3>2 DEF Hop, c
  <2>9. PathLenAt(frame') = at /\ frame'[1] = frame[1]
    <3>1. 1 \in 1..end /\ 1 # at
      BY <2>1
    <3>2. frame'[1] = frame[1]
      BY <2>7, <3>1
    <3> QED
      BY <3>2 DEF PathLenAt, at
  <2>10. PathEnd' = end + size
    <3>1. PathEnd' = PathLenAt(frame') + Len(hops') * origin'.size
      BY DEF PathEnd
    <3>2. origin'.size = size
      BY <2>3 DEF size
    <3> QED
      BY <2>1, <2>8, <2>9, <3>1, <3>2
  <2>11. OriginOK' /\ HopsOK'
    <3>1. OriginOK'
      BY <1>1, <2>3 DEF PacketIInv, OriginOK
    <3>2. origin'.size = size
      BY <2>3 DEF size
    <3>3. Len(hops') =< MaxHops
      BY <2>1, <2>8
    <3> QED
      BY <2>8, <3>1, <3>2, <3>3 DEF HopsOK
  <2>12. \A i \in 1..(c + 1), j \in 1..size :
           frame'[at + (i - 1) * size + j] = hops'[i][j]
    <3> SUFFICES ASSUME NEW i \in 1..(c + 1), NEW j \in 1..size
                 PROVE  frame'[at + (i - 1) * size + j] = hops'[i][j]
      OBVIOUS
    <3>1. CASE i \in 1..c
      <4>1. /\ (i - 1) * size \in Nat /\ i * size = (i - 1) * size + size
            /\ i * size \in Nat /\ i * size =< c * size
        BY <2>1, <3>1, HopInPath
      <4>2. at + (i - 1) * size + j \in 1..end /\ at + (i - 1) * size + j # at
        BY <2>1, <4>1
      <4> QED
        BY <2>2, <2>7, <2>8, <3>1, <4>2
    <3>2. CASE i = c + 1
      <4>1. at + (i - 1) * size + j = end + j
        BY <2>1, <3>2
      <4> QED
        BY <2>7, <2>8, <3>2, <4>1
    <3> QED
      BY <2>1, <3>1, <3>2
  <2>13. \A i \in 1..Len(p) : frame'[end + size + i] = p[i]
    <3>1. Len(frame) - end = Len(p)
      BY <2>1
    <3> QED
      BY <2>2, <2>7, <3>1
  <2>14. frame'[at] = b
    <3>1. at \in 1..end
      BY <2>1
    <3> QED
      BY <2>7, <3>1
  <2>15. Len(frame') = end + size + Len(p)
    BY <2>1, <2>7
  <2>16. /\ origin'.size = size /\ origin'.payload = p
         /\ origin'.header = origin.header
    BY <2>3 DEF size, p
  <2>17. FrameOK'
    <3>1. FrameOK' <=>
            /\ frame' \in Seq(Byte)
            /\ Len(frame') = PathEnd' + Len(p)
            /\ frame'[1] = origin.header
            /\ frame'[at] = PathLenByte(size, Len(hops'))
            /\ \A i \in 1..Len(hops'), j \in 1..size :
                 frame'[at + (i - 1) * size + j] = hops'[i][j]
            /\ \A i \in 1..Len(p) : frame'[PathEnd' + i] = p[i]
      BY <2>9, <2>16 DEF FrameOK
    <3> QED
      BY <2>2, <2>7, <2>8, <2>9, <2>10, <2>12, <2>13, <2>14, <2>15, <3>1 DEF b
  <2> QED
    BY <2>11, <2>17 DEF PacketIInv
<1>2. ASSUME PacketIInv, UNCHANGED packetVars PROVE PacketIInv'
  BY <1>2 DEF packetVars, PacketIInv, OriginOK, HopsOK, FrameOK, PathEnd
<1> QED
  BY <1>1, <1>2 DEF PacketNext

\* However many repeaters copied a message, and by whichever routes, the copy is
\* decoded to the message that was sent and the way it took.
THEOREM CopiesAreDecoded == PacketSpec => []CopiesCarryTheMessage
<1>1. PacketIInv => CopiesCarryTheMessage
  <2> SUFFICES ASSUME PacketIInv PROVE CopiesCarryTheMessage
    OBVIOUS
  <2>1. /\ frame \in Seq(Byte) /\ Len(frame) = PathEnd + Len(origin.payload)
        /\ origin.payload \in Seq(Byte)
    BY DEF PacketIInv, FrameOK, OriginOK
  <2>2. PathEnd \in Nat /\ Len(origin.payload) \in Nat
    BY <2>1, PathEndIs DEF PacketIInv
  <2>3. SubSeq(frame, 1, Len(frame)) = frame
        /\ SubSeq(origin.payload, 1, Len(origin.payload)) = origin.payload
    BY <2>1, SubSeqFull
  <2>4. Len(frame) \in 0..Len(frame) /\ ~(Len(frame) < PathEnd)
        /\ Len(frame) - PathEnd = Len(origin.payload)
    BY <2>1, <2>2
  <2> QED
    BY <2>3, <2>4, PrefixDecodes DEF CopiesCarryTheMessage
<1> QED
  BY <1>1, PacketInitInv, PacketNextInv, PTL DEF PacketSpec

\* A frame that is cut short is malformed, or it is decoded to the whole path
\* and a beginning of the payload.
THEOREM CutFramesAreSafe == PacketSpec => []CutFramesDoNotShift
<1>1. PacketIInv => CutFramesDoNotShift
  <2> SUFFICES ASSUME PacketIInv, NEW n \in 0..Len(frame) - 1
               PROVE  LET packet == DecodePacket(SubSeq(frame, 1, n))
                      IN  \/ packet = Malformed
                          \/ /\ packet.path = hops
                             /\ IsStrictPrefix(packet.payload, origin.payload)
    BY DEF CutFramesDoNotShift
  <2> DEFINE p == origin.payload
             m == n - PathEnd
             q == SubSeq(p, 1, m)
             d == DecodePacket(SubSeq(frame, 1, n))
  <2>1. /\ frame \in Seq(Byte) /\ Len(frame) = PathEnd + Len(p)
        /\ p \in Seq(Byte) /\ PathEnd \in Nat /\ Len(p) \in Nat
    BY PathEndIs DEF PacketIInv, FrameOK, OriginOK
  <2>2. n \in 0..Len(frame) /\ n < Len(frame) /\ n \in Nat
    BY <2>1
  <2>3. d = IF n < PathEnd THEN Malformed
            ELSE [payloadType |-> PayloadType(origin.header),
                  path |-> hops, payload |-> q]
    BY <2>2, PrefixDecodes
  <2>4. CASE n < PathEnd
    BY <2>3, <2>4
  <2>5. CASE ~(n < PathEnd)
    <3>1. m \in Nat /\ m < Len(p)
      BY <2>1, <2>2, <2>5
    <3>2. d.path = hops /\ d.payload = q
      BY <2>3, <2>5
    <3> HIDE DEF p, m, d
    <3>3. q \in Seq(Byte) /\ Len(q) = m
      BY <2>1, <3>1
    <3>4. SubSeq(q, 1, m) = q
      BY <3>3, SubSeqFull
    <3>5. IsStrictPrefix(q, p)
      BY <3>1, <3>3, <3>4 DEF IsStrictPrefix, IsPrefix
    <3> QED
      BY <3>2, <3>5 DEF d, p
  <2> QED
    BY <2>4, <2>5
<1> QED
  BY <1>1, PacketInitInv, PacketNextInv, PTL DEF PacketSpec

-----------------------------------------------------------------------------
(***************************************************************************)
(* Subscriptions, for any set of topics and any number of connections.     *)
(***************************************************************************)
\* What connects the retry loop with the client.
LoopInv ==
  /\ loop = "wait" => client # "new"
  /\ client \in {"open", "reconnecting", "closed"} => opened > 0

MqttInv == MqttTypeOK /\ TopicsCovered /\ TriesUntilConnected /\ LoopInv

LEMMA MqttInitInv == MqttInit => MqttInv
BY MqttAssumption DEF MqttInit, MqttInv, MqttTypeOK, TopicsCovered,
     TriesUntilConnected, LoopInv, NoAnswers, Connections, Resubscriptions,
     IsConnectionOpen

LEMMA SubscribeInv ==
  ASSUME MqttInv, NEW t \in Topics, Subscribe(t)
  PROVE  MqttInv'
<1> USE DEF MqttInv
<1>1. LoopInv' /\ TriesUntilConnected'
  BY DEF Subscribe, Register, CheckOpen, SendSubscribe, AnswerCaller,
         LoopInv, TriesUntilConnected
<1>2. caller' \in [Topics -> {"idle", "check", "send", "wait", "nil", "error"}]
  BY DEF Subscribe, Register, CheckOpen, SendSubscribe, AnswerCaller, CallerAt,
         MqttTypeOK, ResultOf
<1>3. session' \in [Topics -> {"none", "granted", "refused"}]
  BY DEF Subscribe, Register, CheckOpen, SendSubscribe, AnswerCaller,
         MqttTypeOK, Answers
<1>4. MqttTypeOK'
  BY <1>2, <1>3
     DEF Subscribe, Register, CheckOpen, SendSubscribe, AnswerCaller, MqttTypeOK
<1>5. TopicsCovered'
  <2> SUFFICES ASSUME IsConnectionOpen', NEW s \in subs'
               PROVE  \/ session'[s] # "none"
                      \/ caller'[s] \in {"check", "send", "wait"}
                      \/ \E n \in Connections : WillSubscribe(n, s)'
    BY DEF TopicsCovered
  <2>1. IsConnectionOpen /\ UNCHANGED resub /\ s \in Topics
    BY <1>4 DEF Subscribe, Register, CheckOpen, SendSubscribe, AnswerCaller,
                IsConnectionOpen, MqttTypeOK
  <2>2. ASSUME NEW n \in Connections, WillSubscribe(n, s)
        PROVE  WillSubscribe(n, s)'
    BY <2>1, <2>2 DEF WillSubscribe
  <2>3. CASE Register(t)
    BY <2>1, <2>2, <2>3
       DEF Register, CallerAt, TopicsCovered, MqttTypeOK
  <2>4. CASE CheckOpen(t) \/ SendSubscribe(t)
    BY <2>1, <2>2, <2>4
       DEF CheckOpen, SendSubscribe, CallerAt, TopicsCovered, MqttTypeOK
  <2>5. CASE AnswerCaller(t)
    BY <2>1, <2>2, <2>5
       DEF AnswerCaller, CallerAt, TopicsCovered, MqttTypeOK, Answers
  <2> QED BY <2>3, <2>4, <2>5 DEF Subscribe
<1> QED BY <1>1, <1>4, <1>5

LEMMA ResubscribeInv ==
  ASSUME MqttInv, NEW n \in Connections, ResubscribeAll(n)
  PROVE  MqttInv'
<1> USE DEF MqttInv
<1>1. LoopInv' /\ TriesUntilConnected'
  BY DEF ResubscribeAll, CopySubs, ResubNext, AnswerResub, LoopInv,
         TriesUntilConnected
<1>2. resub' \in [Connections -> Resubscriptions]
  <2>1. CASE CopySubs(n)
    BY <2>1 DEF CopySubs, ResubAt, MqttTypeOK, Resubscriptions
  <2>2. CASE ResubNext(n)
    BY <2>2 DEF ResubNext, ResubAt, Without, MqttTypeOK, Resubscriptions
  <2>3. CASE AnswerResub(n)
    BY <2>3 DEF AnswerResub, ResubAt, Without, MqttTypeOK, Resubscriptions
  <2> QED BY <2>1, <2>2, <2>3 DEF ResubscribeAll
<1>3. session' \in [Topics -> {"none", "granted", "refused"}]
  BY DEF ResubscribeAll, CopySubs, ResubNext, AnswerResub, Answers, MqttTypeOK
<1>4. MqttTypeOK'
  BY <1>2, <1>3
     DEF ResubscribeAll, CopySubs, ResubNext, AnswerResub, MqttTypeOK
<1>5. TopicsCovered'
  <2> SUFFICES ASSUME IsConnectionOpen', NEW s \in subs'
               PROVE  \/ session'[s] # "none"
                      \/ caller'[s] \in {"check", "send", "wait"}
                      \/ \E m \in Connections : WillSubscribe(m, s)'
    BY DEF TopicsCovered
  <2>1. IsConnectionOpen /\ UNCHANGED <<subs, caller>> /\ s \in Topics
    BY <1>4 DEF ResubscribeAll, CopySubs, ResubNext, AnswerResub,
                IsConnectionOpen, MqttTypeOK
  <2>2. ASSUME NEW m \in Connections, m # n, WillSubscribe(m, s)
        PROVE  WillSubscribe(m, s)'
    <3>1. resub'[m] = resub[m]
      BY <2>2 DEF ResubscribeAll, CopySubs, ResubNext, AnswerResub, ResubAt,
                  MqttTypeOK
    <3> QED BY <2>2, <3>1 DEF WillSubscribe
  <2>3. session[s] # "none" => session'[s] # "none"
    BY <2>1 DEF ResubscribeAll, CopySubs, ResubNext, AnswerResub, Answers,
                MqttTypeOK
  <2>4. WillSubscribe(n, s) => WillSubscribe(n, s)' \/ session'[s] # "none"
    <3>1. CASE CopySubs(n)
      BY <2>1, <3>1 DEF CopySubs, ResubAt, WillSubscribe, MqttTypeOK
    <3>2. CASE ResubNext(n)
      BY <2>1, <3>2 DEF ResubNext, ResubAt, WillSubscribe, MqttTypeOK,
                        Resubscriptions
    <3>3. CASE AnswerResub(n)
      BY <2>1, <3>3 DEF AnswerResub, ResubAt, Without, WillSubscribe, Answers,
                        MqttTypeOK, Resubscriptions
    <3> QED BY <3>1, <3>2, <3>3 DEF ResubscribeAll
  <2> QED BY <2>1, <2>2, <2>3, <2>4 DEF TopicsCovered
<1> QED BY <1>1, <1>4, <1>5

LEMMA OpenInv ==
  ASSUME MqttInv, Open
  PROVE  MqttInv'
<1> USE DEF MqttInv
<1>1. opened + 1 \in Connections /\ opened' = opened + 1
  BY MqttAssumption DEF Open, MqttTypeOK, Connections
<1>2. MqttTypeOK'
  <2>1. [resub[opened + 1] EXCEPT !.pc = "copy"] \in Resubscriptions
    BY <1>1 DEF MqttTypeOK, Resubscriptions
  <2>2. resub' = [resub EXCEPT ![opened + 1] =
                    [resub[opened + 1] EXCEPT !.pc = "copy"]]
    BY DEF Open
  <2>3. resub' \in [Connections -> Resubscriptions]
    BY <1>1, <2>1, <2>2 DEF MqttTypeOK
  <2>4. opened' \in 0..MaxConnections
    BY <1>1 DEF Connections, MqttTypeOK
  <2> QED BY <2>3, <2>4 DEF Open, MqttTypeOK, NoAnswers
<1>3. resub'[opened + 1].pc = "copy"
  BY <1>1 DEF Open, MqttTypeOK, Resubscriptions
<1>4. TopicsCovered'
  BY <1>1, <1>3 DEF TopicsCovered, WillSubscribe, Connections
<1>5. LoopInv' /\ TriesUntilConnected'
  BY <1>1, MqttAssumption
     DEF Open, LoopInv, TriesUntilConnected, MqttTypeOK, Connections
<1> QED BY <1>2, <1>4, <1>5

LEMMA DownInv ==
  ASSUME MqttInv, Lose \/ Close
  PROVE  MqttInv'
<1> USE DEF MqttInv
<1>1. caller' \in [Topics -> {"idle", "check", "send", "wait", "nil", "error"}]
  BY DEF Lose, Close, FailWaiting, MqttTypeOK
<1>2. resub' \in [Connections -> Resubscriptions]
  BY DEF Lose, Close, FailWaiting, MqttTypeOK, Resubscriptions
<1>3. session' \in [Topics -> {"none", "granted", "refused"}]
  BY DEF Lose, Close, NoAnswers
<1>4. MqttTypeOK'
  BY <1>1, <1>2, <1>3 DEF Lose, Close, MqttTypeOK
<1>5. TopicsCovered'
  BY DEF Lose, Close, TopicsCovered, IsConnectionOpen
<1>6. LoopInv' /\ TriesUntilConnected'
  BY DEF Lose, Close, LoopInv, TriesUntilConnected, IsConnectionOpen
<1> QED BY <1>4, <1>5, <1>6

LEMMA ConnectLoopInv ==
  ASSUME MqttInv, ConnectLoop
  PROVE  MqttInv'
<1> USE DEF MqttInv
<1>1. MqttTypeOK'
  BY DEF ConnectLoop, Connect, AwaitConnect, RetryDelayOver, LoopAt, MqttTypeOK
<1>2. TopicsCovered'
  <2>1. UNCHANGED <<subs, session, caller, resub>>
    BY DEF ConnectLoop, Connect, AwaitConnect, RetryDelayOver
  <2>2. IsConnectionOpen' => IsConnectionOpen
    BY DEF ConnectLoop, Connect, AwaitConnect, RetryDelayOver, IsConnectionOpen
  <2> QED BY <2>1, <2>2 DEF TopicsCovered, WillSubscribe
<1>3. LoopInv' /\ TriesUntilConnected'
  BY DEF ConnectLoop, Connect, AwaitConnect, RetryDelayOver, LoopAt, LoopInv,
         TriesUntilConnected, MqttTypeOK
<1> QED BY <1>1, <1>2, <1>3

LEMMA MqttStepInv == MqttInv /\ [MqttNext]_mqttVars => MqttInv'
<1> SUFFICES ASSUME MqttInv, [MqttNext]_mqttVars
             PROVE  MqttInv'
  OBVIOUS
<1>1. CASE UNCHANGED mqttVars
  BY <1>1 DEF mqttVars, MqttInv, MqttTypeOK, TopicsCovered, WillSubscribe,
              TriesUntilConnected, LoopInv, IsConnectionOpen
<1>2. CASE MqttNext
  BY <1>2, SubscribeInv, ResubscribeInv, OpenInv, DownInv, ConnectLoopInv
     DEF MqttNext
<1> QED BY <1>1, <1>2

\* The variables of the MQTT consumer keep their types.
THEOREM MqttTypeCorrect == MqttSpec => []MqttTypeOK
<1>1. MqttInv => MqttTypeOK
  BY DEF MqttInv
<1> QED BY <1>1, MqttInitInv, MqttStepInv, PTL DEF MqttSpec

\* Between Subscribe and the resubscription of any connection no topic is
\* forgotten, however they interleave.
THEOREM NoTopicForgotten == MqttSpec => []TopicsCovered
<1>1. MqttInv => TopicsCovered
  BY DEF MqttInv
<1> QED BY <1>1, MqttInitInv, MqttStepInv, PTL DEF MqttSpec

\* connectMQTTWithRetry does not give up before there was a connection.
THEOREM NeverGivesUp == MqttSpec => []TriesUntilConnected
<1>1. MqttInv => TriesUntilConnected
  BY DEF MqttInv
<1> QED BY <1>1, MqttInitInv, MqttStepInv, PTL DEF MqttSpec

-----------------------------------------------------------------------------
(***************************************************************************)
(* Retries, for any number of statements, attempts and any times.          *)
(***************************************************************************)
\* The two budgets are kept opaque: what is used of a product is that it is
\* monotone and that one factor more adds one summand.
LEMMA OneMore ==
  ASSUME NEW n \in Nat, NEW k \in Nat
  PROVE  n * k \in Nat /\ (n + 1) * k = n * k + k
OBVIOUS

LEMMA Monotone ==
  ASSUME NEW m \in Nat, NEW n \in Nat, NEW k \in Nat, m =< n
  PROVE  m * k =< n * k
OBVIOUS

LEMMA Budgets ==
  /\ AttemptBudget \in Nat
  /\ StatementBudget \in Nat
  /\ AttemptBudget = BusyTimeout + RetryDelay
  /\ \A a \in 0..Retries :
       a * AttemptBudget + AttemptBudget =< StatementBudget
<1>1. AttemptBudget \in Nat /\ AttemptBudget = BusyTimeout + RetryDelay
  BY BusyRetryAssumption DEF AttemptBudget
<1>2. StatementBudget \in Nat
  BY <1>1, BusyRetryAssumption, OneMore DEF StatementBudget
<1>3. ASSUME NEW a \in 0..Retries
      PROVE  a * AttemptBudget + AttemptBudget =< StatementBudget
  <2>1. (a + 1) * AttemptBudget = a * AttemptBudget + AttemptBudget
    BY <1>1, OneMore
  <2>2. (a + 1) * AttemptBudget =< (Retries + 1) * AttemptBudget
    BY <1>1, BusyRetryAssumption, Monotone
  <2> QED  BY <2>1, <2>2 DEF StatementBudget
<1> QED  BY <1>1, <1>2, <1>3

LEMMA InitBusyInv == BusyInit => BusyInv
<1> SUFFICES ASSUME BusyInit PROVE BusyInv
  OBVIOUS
<1>1. BusyTypeOK
  <2>1. inserted \in BOOLEAN
    BY DEF BusyInit
  <2>2. 1 \in 1..Statements + 1 /\ ~(1 > Statements) /\ 0 \in 0..Retries
    BY BusyRetryAssumption
  <2> QED  BY <2>1, <2>2 DEF BusyInit, BusyTypeOK, Returned
<1>2. 0 * StatementBudget = 0 /\ 0 * AttemptBudget = 0
  BY Budgets
<1>3. TimeIsAccounted
  BY <1>2 DEF BusyInit, TimeIsAccounted
<1> QED  BY <1>1, <1>3 DEF BusyInv

\* Going on to a later statement: whatever this one took is within its budget.
LEMMA GoOnKeeps ==
  ASSUME BusyInv, phase = "try", ~Returned, Wait,
         NEW next \in statement + 1 .. Statements + 1, GoOn(next),
         inserted' \in BOOLEAN
  PROVE  BusyInv'
<1> DEFINE S == StatementBudget
           A == AttemptBudget
<1>0. statement \in 1..Statements /\ attempt \in 0..Retries /\ elapsed \in Nat
  BY BusyRetryAssumption DEF BusyInv, BusyTypeOK, Returned
<1>1. PICK t \in 0..BusyTimeout : elapsed' = elapsed + t
  BY DEF Wait
<1>2. S \in Nat /\ A \in Nat /\ attempt * A \in Nat /\ t =< A
      /\ attempt * A + A =< S
  BY <1>0, <1>1, Budgets, OneMore, BusyRetryAssumption
<1>3. /\ (statement - 1) * S \in Nat
      /\ statement * S = (statement - 1) * S + S
  BY <1>0, <1>2, OneMore
<1>4. elapsed =< (statement - 1) * S + attempt * A
  BY <1>0, <1>2, <1>3 DEF BusyInv, TimeIsAccounted
<1>5. elapsed' \in Nat /\ elapsed' =< statement * S
  BY <1>0, <1>1, <1>2, <1>3, <1>4, BusyRetryAssumption
<1>6. statement * S =< (next - 1) * S /\ (next - 1) * S \in Nat
  BY <1>0, <1>2, Monotone, OneMore, BusyRetryAssumption
<1>7. 0 * A = 0
  BY <1>2
<1>8. TimeIsAccounted'
  <2>1. elapsed' =< (next - 1) * S
    BY <1>0, <1>2, <1>3, <1>5, <1>6
  <2> QED  BY <1>6, <1>7, <2>1 DEF TimeIsAccounted, GoOn
<1>9. BusyTypeOK'
  BY <1>0, <1>5, BusyRetryAssumption DEF BusyTypeOK, GoOn, Returned
<1> QED  BY <1>8, <1>9 DEF BusyInv

LEMMA NextBusyInv == BusyInv /\ [BusyNext]_busyVars => BusyInv'
<1> SUFFICES ASSUME BusyInv, [BusyNext]_busyVars PROVE BusyInv'
  OBVIOUS
<1>0. /\ statement \in 1..Statements + 1 /\ attempt \in 0..Retries
      /\ elapsed \in Nat /\ inserted \in BOOLEAN
  BY DEF BusyInv, BusyTypeOK
<1>1. CASE Succeed
  <2>1. ~Returned => statement =< Statements
    BY <1>0, BusyRetryAssumption DEF Returned
  <2> QED  BY <1>0, <1>1, <2>1, GoOnKeeps, BusyRetryAssumption DEF Succeed
<1>2. CASE GiveUp
  <2>1. ~Returned => statement =< Statements
    BY <1>0, BusyRetryAssumption DEF Returned
  <2> QED  BY <1>0, <1>2, <2>1, GoOnKeeps, BusyRetryAssumption DEF GiveUp
<1>3. CASE Busy
  <2>1. PICK t \in 0..BusyTimeout : elapsed' = elapsed + t
    BY <1>3 DEF Busy, Wait
  <2>2. /\ (statement - 1) * StatementBudget \in Nat
        /\ attempt * AttemptBudget \in Nat
    BY <1>0, Budgets, OneMore
  <2>3. elapsed =< (statement - 1) * StatementBudget + attempt * AttemptBudget
    BY <1>0, <1>3, <2>2 DEF BusyInv, TimeIsAccounted, Busy
  <2>4. TimeIsAccounted'
    BY <1>0, <1>3, <2>1, <2>2, <2>3, BusyRetryAssumption
    DEF TimeIsAccounted, Busy
  <2>5. BusyTypeOK'
    BY <1>0, <1>3, <2>1, BusyRetryAssumption DEF BusyTypeOK, Busy, Returned
  <2> QED  BY <2>4, <2>5 DEF BusyInv
<1>4. CASE Retry
  <2>1. /\ (statement - 1) * StatementBudget \in Nat
        /\ attempt * AttemptBudget \in Nat
        /\ (attempt + 1) * AttemptBudget
             = attempt * AttemptBudget + AttemptBudget
    BY <1>0, Budgets, OneMore
  <2>2. elapsed =< (statement - 1) * StatementBudget + attempt * AttemptBudget
                   + BusyTimeout
    BY <1>4 DEF BusyInv, TimeIsAccounted, Retry
  <2>3. elapsed' =< (statement - 1) * StatementBudget
                      + (attempt + 1) * AttemptBudget
    BY <1>0, <1>4, <2>1, <2>2, Budgets, BusyRetryAssumption DEF Retry
  <2>4. TimeIsAccounted'
    <3>1. elapsed' \in Nat /\ attempt' = attempt + 1 /\ statement' = statement
          /\ phase' # "delay"
      BY <1>0, <1>4, BusyRetryAssumption DEF Retry
    <3>2. (attempt + 1) * AttemptBudget \in Nat
      BY <1>0, <2>1, Budgets
    <3> QED  BY <2>1, <2>3, <3>1, <3>2 DEF TimeIsAccounted
  <2>5. BusyTypeOK'
    BY <1>0, <1>4, BusyRetryAssumption DEF BusyInv, BusyTypeOK, Retry, Returned
  <2> QED  BY <2>4, <2>5 DEF BusyInv
<1>5. CASE UNCHANGED busyVars
  BY <1>5 DEF busyVars, BusyInv, BusyTypeOK, TimeIsAccounted, Returned
<1> QED  BY <1>1, <1>2, <1>3, <1>4, <1>5 DEF BusyNext

\* Where the invariant holds, the call is within the budget of its statements.
LEMMA InvIsBrief == BusyInv => HandlerIsBrief
<1> SUFFICES ASSUME BusyInv PROVE HandlerIsBrief
  OBVIOUS
<1> DEFINE S == StatementBudget
           A == AttemptBudget
<1>0. /\ statement \in 1..Statements + 1 /\ attempt \in 0..Retries
      /\ elapsed \in Nat
  BY DEF BusyInv, BusyTypeOK
<1>1. S \in Nat /\ A \in Nat /\ (statement - 1) * S \in Nat
      /\ attempt * A \in Nat /\ attempt * A + A =< S /\ BusyTimeout =< A
  BY <1>0, Budgets, OneMore, BusyRetryAssumption
<1>2. elapsed =< (statement - 1) * S + attempt * A
                 + (IF phase = "delay" THEN BusyTimeout ELSE 0)
  BY DEF BusyInv, TimeIsAccounted
<1>3. CASE statement =< Statements
  <2>1. elapsed =< (statement - 1) * S + S
    BY <1>0, <1>1, <1>2, BusyRetryAssumption
  <2>2. (statement - 1) * S + S = statement * S /\ statement * S \in Nat
    BY <1>0, <1>1, OneMore
  <2>3. statement * S =< Statements * S /\ Statements * S \in Nat
    BY <1>0, <1>1, <1>3, Monotone, OneMore, BusyRetryAssumption
  <2> QED  BY <1>0, <1>1, <2>1, <2>2, <2>3 DEF HandlerIsBrief
<1>4. CASE statement = Statements + 1
  <2>1. attempt = 0 /\ phase # "delay"
    BY <1>0, <1>4, BusyRetryAssumption DEF BusyInv, BusyTypeOK, Returned
  <2>2. attempt * A = 0 /\ (statement - 1) * S = Statements * S
    BY <1>1, <1>4, <2>1, BusyRetryAssumption
  <2>3. elapsed =< Statements * S
    BY <1>0, <1>1, <1>2, <2>1, <2>2
  <2> QED  BY <2>3 DEF HandlerIsBrief
<1> QED  BY <1>0, <1>3, <1>4, BusyRetryAssumption

\* However often and however long SQLite is busy, a call of HandleMessage takes
\* no longer than its attempts are allowed to wait.
THEOREM HandlersAreBrief == BusySpec => []HandlerIsBrief
<1>1. BusyInit => BusyInv
  BY InitBusyInv
<1>2. BusyInv /\ [BusyNext]_busyVars => BusyInv'
  BY NextBusyInv
<1>3. BusyInv => HandlerIsBrief
  BY InvIsBrief
<1> QED  BY <1>1, <1>2, <1>3, PTL DEF BusySpec

-----------------------------------------------------------------------------
(***************************************************************************)
(* The leaderboard, for any check-ins: see RankingProofs for what Compute  *)
(* does with them.                                                         *)
(***************************************************************************)
LEMMA RowsAreSequence == Spec => [](rows \in Seq(Rows))
<1>1. Init => rows \in Seq(Rows)
  BY DEF Init
<1>2. rows \in Seq(Rows) /\ [AddCheckin]_rows => (rows \in Seq(Rows))'
  BY DEF AddCheckin
<1> QED
  BY <1>1, <1>2, PTL DEF Spec

LEMMA RowsAreCheckins ==
  ASSUME rows \in Seq(Rows) PROVE rows \in Seq(Checkins)
<1>1. Rows \subseteq Checkins
  BY LeaderboardAssumption DEF Rows, Checkins, MondayDates
<1> QED
  BY <1>1, SeqMonotonic

\* Whatever the rows, and in whichever order they come, the streak beside a
\* user is the longest run of his weeks, and the date the start of its first.
THEOREM StreaksAreTheLongest == Spec => []StreaksAreLongest
<1>1. rows \in Seq(Rows) => StreaksAreLongest
  <2> SUFFICES ASSUME rows \in Seq(Rows), NEW e \in Entries(rows)
               PROVE  /\ IsRun(e.user, e.streakStart, e.streak)
                      /\ \A d \in DaysOf(e.user) :
                           /\ ~IsRun(e.user, d, e.streak + 1)
                           /\ IsRun(e.user, d, e.streak) => e.streakStart =< d
    BY DEF StreaksAreLongest
  <2>1. rows \in Seq(Checkins)
    BY RowsAreCheckins
  <2>2. PICK u \in {r.user : r \in Range(rows)} : e = Entry(rows, u)
    BY DEF Entries
  <2>3. DaysIn(rows, u) # {} /\ DaysOf(u) = DaysIn(rows, u)
    BY <2>1, UsersHaveDays DEF DaysIn, DaysOf
  <2>4. \A x, n : IsRun(u, x, n) <=> RunIn(DaysIn(rows, u), x, n)
    BY <2>3 DEF IsRun, RunIn
  <2> QED
    BY <2>1, <2>2, <2>3, <2>4, EntryOfUser
<1> QED
  BY <1>1, RowsAreSequence, PTL

\* Whatever the rows, sort.Slice can return one order only: two requests over
\* the same check-ins show the same leaderboard, though the entries come out
\* of a map.
THEOREM RankingIsUnique == Spec => []RankingIsDetermined
<1>1. rows \in Seq(Rows) => RankingIsDetermined
  BY RowsAreCheckins, OneRanking DEF RankingIsDetermined
<1> QED
  BY <1>1, RowsAreSequence, PTL
=============================================================================
