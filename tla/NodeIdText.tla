----------------------------- MODULE NodeIdText -----------------------------
(***************************************************************************)
(* The textual form of a node identity (node_id.rs): "mw:node:" and the    *)
(* base32 encoding of a 16-byte digest prefix. A node displays its         *)
(* identity; the text is copied by hand or by programs of other makers,    *)
(* which may change it; from_str() reads what is left of it.  26 symbols   *)
(* hold 130 bits for 128 bits of data, and letters have two cases: the     *)
(* decoder library may or may not refuse the texts that differ in those,   *)
(* and from_str() must not depend on it.                                   *)
(*                                                                         *)
(* A symbol is a number: 0..31 the RFC 4648 alphabet, A to Z first; 32..57 *)
(* the lower-case letters; 58 the padding; 59 anything else.  The scheme   *)
(* is intact or not, as it is compared as a whole.                         *)
(***************************************************************************)
EXTENDS Integers, Sequences, SequencesExt

CONSTANTS Nodes,    \* digest prefixes of the nodes there are
          Positions,   \* where a symbol may be replaced
          MaxEdits     \* how many changes a text suffers

ASSUME TextAssumption == /\ Nodes \subseteq [1..16 -> 0..255]
                         /\ MaxEdits \in Nat /\ Positions \subseteq 1..26

NODE_ID_PREFIX_LEN  == 16
NODE_ID_ENCODED_LEN == 26

VARIABLES decoder,     \* what the base32 library tolerates
          node,        \* the prefix of the node that displayed the text
          text,        \* [scheme, symbols]
          edits,       \* how often the text was changed
          verdict      \* of from_str(): a prefix, <<>> for Malformed; or not asked
textVars == <<decoder, node, text, edits, verdict>>

Malformed == <<>>
NotAsked  == <<-1>>

Symbols  == 0..59
Alphabet == 0..31
Upper(c) == IF c \in 32..57 THEN c - 32 ELSE c

\* Bit i, from 0, of a sequence of digits of w bits, most significant first,
\* zero past the end.
Bit(s, w, i) == IF i \div w < Len(s) THEN (s[i \div w + 1] \div 2^(w - 1 - (i % w))) % 2
                ELSE 0

\* The number a sequence of bits stands for.
Value(bits) ==
  LET value[i \in 0..Len(bits)] == IF i = 0 THEN 0 ELSE 2 * value[i - 1] + bits[i]
  IN  value[Len(bits)]

\* The same bits as n digits of v bits.
Regroup(s, w, v, n) ==
  [k \in 1..n |-> Value([j \in 1..v |-> Bit(s, w, v * (k - 1) + j - 1)])]

Encode(prefix) == Regroup(prefix, 8, 5, NODE_ID_ENCODED_LEN)

\* BASE32_NOPAD.decode(). A number of symbols that leaves five bits or more
\* over is no encoding of bytes. A strict decoder refuses lower case, and
\* bits that are left over and not zero; a tolerant one ignores both.
Decode(symbols) ==
  LET bits == 5 * Len(symbols)
      read == IF decoder = "tolerant" THEN [k \in DOMAIN symbols |-> Upper(symbols[k])]
              ELSE symbols
  IN  IF /\ bits % 8 < 5
         /\ \A k \in DOMAIN read : read[k] \in Alphabet
         /\ decoder = "strict" =>
              \A i \in (bits - (bits % 8))..(bits - 1) : Bit(read, 5, i) = 0
      THEN Regroup(read, 5, 8, bits \div 8)
      ELSE Malformed

\* Bug: the letters are written in lower case.
Bug_LowerCase(prefix) ==
  [scheme |-> TRUE,
   symbols |-> [k \in 1..NODE_ID_ENCODED_LEN |->
                  LET c == Encode(prefix)[k] IN IF c < 26 THEN c + 32 ELSE c]]

Display(prefix) == [scheme |-> TRUE, symbols |-> Encode(prefix)]

\* Bug: the decoder is trusted to refuse every other text.
Bug_TrustsDecoder(t) ==
  LET prefix == Decode(t.symbols)
  IN  IF t.scheme /\ Len(t.symbols) = NODE_ID_ENCODED_LEN THEN prefix ELSE Malformed

FromStr(t) ==
  LET prefix == Decode(t.symbols)
  IN  IF /\ t.scheme
         /\ Len(t.symbols) = NODE_ID_ENCODED_LEN
         /\ Len(prefix) = NODE_ID_PREFIX_LEN
         /\ Encode(prefix) = t.symbols
      THEN prefix
      ELSE Malformed

TextInit ==
  /\ decoder \in {"strict", "tolerant"}
  /\ node \in Nodes
  /\ text = Display(node)
  /\ edits = 0
  /\ verdict = NotAsked

\* A text is changed before it is read.
Edited(scheme, symbols) ==
  /\ verdict = NotAsked
  /\ edits < MaxEdits
  /\ text' = [scheme |-> scheme, symbols |-> symbols]
  /\ edits' = edits + 1
  /\ UNCHANGED <<decoder, node, verdict>>
Replace == \E p \in Positions \cap DOMAIN text.symbols, c \in Symbols :
             Edited(text.scheme, [text.symbols EXCEPT ![p] = c])
Shorten == text.symbols # <<>> /\ Edited(text.scheme, Front(text.symbols))
Lengthen == \E c \in {0, 58} : Edited(text.scheme, Append(text.symbols, c))
LoseScheme == Edited(FALSE, text.symbols)

\* from_str(), directly or through Deserialize.
Parse == /\ verdict = NotAsked
         /\ verdict' = FromStr(text)
         /\ UNCHANGED <<decoder, node, text, edits>>

TextNext == Replace \/ Shorten \/ Lengthen \/ LoseScheme \/ Parse
TextSpec == TextInit /\ [][TextNext]_textVars

\* What a node displays is parsed to that node under either decoder, and what
\* was changed is not parsed to it unless the changes undid each other: no
\* second text names the node, whatever bits and cases the decoder ignores
\* (node_id.rs:56-63).
ParsedIffUnchanged ==
  verdict # NotAsked => (verdict = node <=> text = Display(node))
=============================================================================
