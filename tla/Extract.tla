------------------------------ MODULE Extract ------------------------------
(***************************************************************************)
(* internal/checkins: which packets are check-ins, and whose.              *)
(*                                                                         *)
(* The operator configures channels (internal/config), the page names them *)
(* (internal/web), people send messages on a Monday, and the first message *)
(* of a user gives him a tile.  Text is abstracted to what the parser sees *)
(* of it: a name in front of ": ", and whether the rest has the tag.       *)
(***************************************************************************)
EXTENDS Naturals, SequencesExt

CONSTANTS
  Senders,       \* names as people write them
  NoSender,      \* no name
  Channels,      \* names of hashtag channels, "meshmonday" among them or not
  PrivateKeys,   \* keys of private channels
  HashByte,      \* first byte of a key's SHA-256
  MaxHashtags,   \* bound: how many hashtag channels are configured
  MaxMessages    \* bound: how many messages are sent

VARIABLES
  hashtags,   \* HASHTAG_CHANNELS, as the operator wrote them
  private,    \* PRIVATE_CHANNEL_KEYS
  sent,       \* tagged messages: who sent them, under which key, and if no
              \* other key fits
  tiles,      \* the check-ins of the week
  messages    \* how many messages have been sent

extractVars == <<hashtags, private, sent, tiles, messages>>

-----------------------------------------------------------------------------
(* Names: words of Latin letters and digits, what stands between them, and *)
(* what it may contain that the parser does not take in a name.            *)

Names ==
  [words : Seq(STRING), between : STRING, shape : {"plain", "bracket", "long"}]

ASSUME ExtractAssumption ==
  /\ Senders \subseteq Names
  /\ NoSender \notin Senders
  /\ IsFiniteSet(PrivateKeys)
  /\ MaxHashtags \in Nat

\* What stands between the words becomes "_".
NormalizeUsername(name) ==
  IF name.words = <<>> THEN <<"anonymous">> ELSE name.words

\* parseSenderAndMessage takes no name with a bracket or colon, and none of 80
\* bytes or more.
ParseSender(text) ==
  IF text.sender # NoSender /\ text.sender.shape = "plain"
  THEN text.sender ELSE NoSender

-----------------------------------------------------------------------------
(* Channels and their keys.  A channel may be written with or without `#'  *)
(* and in any case; the SHA-256 of its normal form is its key.             *)

Spellings == [name : Channels, hashed : BOOLEAN, lower : BOOLEAN]

Normal(ch) == [ch EXCEPT !.hashed = TRUE, !.lower = TRUE]

PublicKey == [public |-> "8b33"]
KeyOf(ch) == [hashtag |-> ch]
PrivateKey(k) == [private |-> k]

DeriveHashtagKey(ch) == KeyOf(Normal(ch))

Distinct(s) ==
  FoldLeft(LAMBDA out, e : IF Contains(out, e) THEN out ELSE Append(out, e),
           <<>>, s)

ChannelSecretKeys ==
  Distinct(<<PublicKey>>
             \o [i \in DOMAIN hashtags |-> DeriveHashtagKey(hashtags[i])]
             \o [i \in DOMAIN private |-> PrivateKey(private[i])])

\* The channels that the empty board tells people to use.
ConfiguredHashtagChannels ==
  {ch \in {Normal(hashtags[i]) : i \in DOMAIN hashtags} :
     ch.name # "meshmonday"}

-----------------------------------------------------------------------------
(* Packets: a group text, encrypted with a key, or a body in the clear, as *)
(* text or as (compact) JSON.  A group text `fits' the keys that its MAC   *)
(* can be verified with and that decrypt it to UTF-8 (others are skipped): *)
(* its own, and perhaps wrong ones, under which it becomes noise.          *)

Texts == [sender : Senders \cup {NoSender}, tagged : BOOLEAN]

Noise == [sender |-> NoSender, tagged |-> FALSE]

NoCandidate == [found |-> FALSE]

Candidate(name) ==
  [found |-> TRUE, username |-> NormalizeUsername(name), display |-> name]

\* Mutant: the tag is not asked for.
ParseUntagged(text) ==
  IF ParseSender(text) # NoSender THEN Candidate(ParseSender(text))
                                  ELSE NoCandidate

ParseCandidateFromText(text) ==
  IF ParseSender(text) # NoSender /\ text.tagged
  THEN Candidate(ParseSender(text))
  ELSE NoCandidate

\* Mutant: the search ends at the first key with the right hash byte.
FirstHashByte(p) ==
  LET keys == ChannelSecretKeys
      i == SelectInSeq(keys, LAMBDA k : HashByte[k] = HashByte[p.key])
  IN  IF i > 0 /\ keys[i] \in p.fits THEN i ELSE 0

\* The first configured key that fits, in decryptGroupTextPayload; 0 if none.
FittingKey(p) ==
  SelectInSeq(ChannelSecretKeys,
              LAMBDA k : HashByte[k] = HashByte[p.key] /\ k \in p.fits)

DecryptGroupTextPayload(p) ==
  IF ChannelSecretKeys[FittingKey(p)] = p.key THEN p.text ELSE Noise

\* JSON gives the name in a field, and any name will do.
ExtractFromPayload(p) ==
  CASE p.kind = "json" /\ p.text.sender # NoSender /\ p.text.tagged ->
         Candidate(p.text.sender)
    [] p.kind = "text" -> ParseCandidateFromText(p.text)
    [] OTHER -> NoCandidate

ExtractFromPacket(p) ==
  IF p.kind = "group" /\ FittingKey(p) > 0
  THEN ParseCandidateFromText(DecryptGroupTextPayload(p))
  ELSE ExtractFromPayload(p)

-----------------------------------------------------------------------------
(* The Monday *)

ExtractInit ==
  /\ hashtags \in BoundedSeq(Spellings, MaxHashtags)
  /\ private \in {SetToSeq(S) : S \in SUBSET PrivateKeys}
  /\ sent = {}
  /\ tiles = {}
  /\ messages = 0

\* The keys that somebody's radio may use.
AnyKey ==
  {PublicKey} \cup {KeyOf(Normal(ch)) : ch \in Spellings}
              \cup {PrivateKey(k) : k \in PrivateKeys}

NoKey == [clear |-> TRUE]

OnAir ==
  {p \in [kind : {"group"}, key : AnyKey, fits : SUBSET AnyKey, text : Texts] :
     p.key \in p.fits /\ \A k \in p.fits : HashByte[k] = HashByte[p.key]}
  \cup [kind : {"text", "json"}, key : {NoKey}, fits : {{}}, text : Texts]

\* HandleMessage files the candidate unless the user has a tile already.
FileCandidate(c) ==
  tiles' = IF c.found /\ ~\E t \in tiles : t.username = c.username
           THEN tiles \cup {[username |-> c.username, display |-> c.display]}
           ELSE tiles

Send(p) ==
  /\ messages' = messages + 1
  /\ sent' = IF p.text.sender # NoSender /\ p.text.tagged
             THEN sent \cup {[sender |-> p.text.sender, key |-> p.key,
                              clear |-> p.fits \subseteq {p.key}]}
             ELSE sent
  /\ FileCandidate(ExtractFromPacket(p))
  /\ UNCHANGED <<hashtags, private>>

ExtractNext == messages < MaxMessages /\ \E p \in OnAir : Send(p)

ExtractSpec == ExtractInit /\ [][ExtractNext]_extractVars

-----------------------------------------------------------------------------
\* Where a message is to be sent for a tile: the page names these channels, and
\* who has a private channel knows it.
Listed ==
  {PublicKey} \cup {KeyOf(ch) : ch \in ConfiguredHashtagChannels}
              \cup {PrivateKey(private[i]) : i \in DOMAIN private}

\* Every channel the page names is heard, as are the public and the private
\* ones, however they are written, in whatever order, and whichever keys share
\* a hash byte: who sends a tagged message there, under a name the parser
\* takes, has a tile under the user of that name.  (Unless its MAC of two bytes
\* fits a wrong key: the search ends there.)
EveryListedChannelIsHeard ==
  \A s \in sent :
    s.key \in Listed /\ s.clear /\ s.sender.shape = "plain"
      => \E t \in tiles : t.username = NormalizeUsername(s.sender)

\* A tile bears the name of somebody who sent a tagged message, even if a packet
\* is decrypted with a wrong key.
TilesHaveSenders == \A t \in tiles : \E s \in sent : s.sender = t.display
=============================================================================
