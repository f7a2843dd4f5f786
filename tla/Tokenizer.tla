----------------------------- MODULE Tokenizer -----------------------------
(***************************************************************************)
(* The text side of the bert plugin: how a text becomes the ids that the   *)
(* model is given (plugins/official/bert).  A text is a sequence of        *)
(* characters, a token a sequence of characters that may start with "##".  *)
(* ICU's classes of characters are represented by one character each.      *)
(*                                                                         *)
(* The plugin encodes one text with the default options; the library also  *)
(* takes a pair of texts and other strategies, which are covered from the  *)
(* ids on.                                                                 *)
(***************************************************************************)
EXTENDS Integers, FiniteSets, FiniteSetsExt, Sequences, SequencesExt

CONSTANTS
  TkVocab,       \* the lines of the vocabulary, the special tokens first
  TkSpecial,     \* the special tokens, in the order they are added
  TkText,        \* texts
  TkMaxChars,    \* max_input_chars_per_word_, 100
  TkMaxLength,   \* values of max_length, 512 in the plugin
  TkIdsLength    \* bound: ids of one text of a pair

\* The names of the special tokens in TkVocab.
TkPad == TkVocab[1]
TkUnk == TkVocab[2]
TkCls == TkVocab[3]
TkSep == TkVocab[4]
TkMask == TkVocab[5]

\* With less, truncateSequence would take ids from an empty vector.
ASSUME TkMaxLengthAssumption == \A n \in TkMaxLength : n >= 3

ASSUME TkSpecialAssumption == Range(TkSpecial) = {TkVocab[i] : i \in 1..5}

VARIABLE
  tk   \* a text on its way: what it is now, and the options

TkDefaults == [special |-> TRUE, truncate |-> "LONGEST_FIRST", padding |-> "MAX_LENGTH"]

TkOptions ==
  [special : BOOLEAN, truncate : {"ONLY_FIRST", "ONLY_SECOND", "LONGEST_FIRST"},
   padding : {"DO_NOT_PAD", "MAX_LENGTH", "LONGEST"}]

TkInitial(on) ==
  \/ on /\ \E t \in TkText, n \in TkMaxLength :
       tk = [at |-> "text", text |-> t, max |-> n, opt |-> TkDefaults]
  \/ on /\ \E a, b \in {[i \in 1..n |-> 5] : n \in 0..TkIdsLength}, n \in TkMaxLength, o \in TkOptions :
       tk = [at |-> "ids", a |-> a, b |-> b, max |-> n, opt |-> o]
  \/ ~on /\ tk = [at |-> "off"]

-----------------------------------------------------------------------------
(* utils/tokenizer_utils.cc *)

IsWhiteSpace(c) == c \in {" ", "tab"}
IsControl(c) == c = "control"
IsPunctuation(c) == c \in {",", "[", "]"}
IsChineseChar(c) == c = "han"
IsAccent(c) == c = "accent"     \* category Mn after normalisation
ToLower(c) == IF c = "A" THEN "a" ELSE c

\* The places of a text for which a test holds, in order.
Places(text, Test(_)) == SelectSeq([i \in DOMAIN text |-> i], Test)

\* Strip: the white space at both ends.
Strip(text) ==
  LET kept == {i \in DOMAIN text : ~IsWhiteSpace(text[i])}
  IN  IF kept = {} THEN <<>> ELSE SubSeq(text, Min(kept), Max(kept))

\* CleanText: no control characters, every white space a blank.
CleanText(text) ==
  LET kept == SelectSeq(text, LAMBDA c : ~IsControl(c))
  IN  [i \in DOMAIN kept |-> IF IsWhiteSpace(kept[i]) THEN " " ELSE kept[i]]

\* A Chinese character is a word of its own.
TokenizeChineseChars(text) ==
  FlattenSeq([i \in DOMAIN text |->
    IF IsChineseChar(text[i]) THEN <<" ", text[i], " ">> ELSE <<text[i]>>])

\* WhitespaceTokenize: one character is returned as it is; else the stretches
\* between the blanks, empty ones too, but not an empty one at the end.
WhitespaceTokenize(text) ==
  LET blanks == Places(text, LAMBDA i : text[i] = " ")
      From(i) == IF i = 1 THEN 1 ELSE blanks[i - 1] + 1
      all == [i \in 1..Len(blanks) |-> SubSeq(text, From(i), blanks[i] - 1)]
      rest == SubSeq(text, From(Len(blanks) + 1), Len(text))
  IN  IF Len(text) = 1 THEN <<text>>
      ELSE IF rest = <<>> THEN all ELSE Append(all, rest)

StripAccents(text) == SelectSeq(text, LAMBDA c : ~IsAccent(c))

\* SplitByPunctuation: a punctuation character is a word of its own.
SplitByPunctuation(text) ==
  LET starts == Places(text, LAMBDA i :
                  i = 1 \/ IsPunctuation(text[i]) \/ IsPunctuation(text[i - 1]))
      End(k) == IF k = Len(starts) THEN Len(text) ELSE starts[k + 1] - 1
  IN  IF text \in Range(TkSpecial) THEN <<text>>
      ELSE [k \in DOMAIN starts |-> SubSeq(text, starts[k], End(k))]

-----------------------------------------------------------------------------
(* basic/basic_tokenizer.cc, basic/wordpiece_tokenizer.cc *)

\* The words of all tokens, with one blank between two words.
JoinByBlank(words) ==
  FlattenSeq([i \in DOMAIN words |-> IF i = 1 THEN words[i] ELSE <<" ">> \o words[i]])

\* BasicTokenizer::Tokenize in its two halves: the stretches between the blanks
\* of the clean text, and the words these are made of.
BasicTokens(text) == WhitespaceTokenize(TokenizeChineseChars(CleanText(text)))

BasicWords(tokens) ==
  LET Lower(token) == [i \in DOMAIN token |-> ToLower(token[i])]
      Normal(token) == IF token \in Range(TkSpecial) THEN token ELSE StripAccents(Lower(token))
      words == FlattenSeq([i \in DOMAIN tokens |-> SplitByPunctuation(Normal(tokens[i]))])
  IN  WhitespaceTokenize(JoinByBlank(words))

InVocab(token) == token \in Range(TkVocab)

\* The token of the characters s..e of a word.
Piece(word, s, e) == (IF s > 1 THEN <<"##">> ELSE <<>>) \o SubSeq(word, s, e)

\* end counts down from the end of the word.
PieceEnd(ends) == Max(ends)

\* The pieces of a word, each the longest one of the vocabulary; the whole
\* word is unknown when one of them cannot be found.
WordPieces(word) ==
  LET Ends(s) == {e \in s..Len(word) : InVocab(Piece(word, s, e))}
      from[s \in 1..(Len(word) + 1)] ==
        IF s > Len(word) THEN <<>>
        ELSE IF Ends(s) = {} THEN <<TkUnk>>
        ELSE <<Piece(word, s, PieceEnd(Ends(s)))>> \o from[PieceEnd(Ends(s)) + 1]
      pieces == from[1]
  IN  IF Len(word) > TkMaxChars THEN <<TkUnk>>
      ELSE IF Len(word) = 1 THEN <<IF InVocab(word) THEN word ELSE TkUnk>>
      ELSE IF TkUnk \in Range(pieces) THEN <<TkUnk>> ELSE pieces

WordpieceTokenize(text) ==
  LET words == WhitespaceTokenize(text)
  IN  FlattenSeq([i \in DOMAIN words |-> WordPieces(words[i])])

\* BertTokenizer::TokenizeImpl: the pieces of one of its words.
PiecesOf(word) == IF word \in Range(TkSpecial) THEN <<word>> ELSE WordpieceTokenize(word)

-----------------------------------------------------------------------------
(* fundamental/fundamental_tokenizer.cc *)

\* addSpecialToken: the tokens that have character c behind n others, and the
\* tokens that end after n characters.
CharIds(n, c) == {k \in DOMAIN TkSpecial : n < Len(TkSpecial[k]) /\ TkSpecial[k][n + 1] = c}
EndIds(n) == {k \in DOMAIN TkSpecial : Len(TkSpecial[k]) = n}

\* GetSpecialTokenSpan: the length of the special token that starts at
\* "start", or -1.  The walk stops at the end of the text, where any token of
\* that length counts, or at the first character no candidate goes on with.
SpanLength(text, start) ==
  LET rest == Len(text) - start + 1
      Alive(n) == {k \in DOMAIN TkSpecial : \A i \in 1..n : k \in CharIds(i - 1, text[start + i - 1])}
      Goes(n) == CharIds(n, text[start + n])
      stop == Min({n \in 0..rest : n = rest \/ Goes(n) \cap Alive(n) = {}})
  IN  IF stop = rest THEN IF EndIds(stop) # {} THEN stop ELSE -1
      ELSE IF Goes(stop) = {} /\ EndIds(stop) \cap Alive(stop) # {} THEN stop ELSE -1

\* SplitBySpecialToken: the spans of getSpecialTokenSpans and what lies
\* between them.
SplitBySpecialToken(text) ==
  LET spans == Places(text, LAMBDA i :
                  CharIds(0, text[i]) # {} /\ SpanLength(text, i) > 0)
      Begin(k) == IF k = 0 THEN 1 ELSE spans[k] + SpanLength(text, spans[k])
      Between(k) == IF Begin(k - 1) < spans[k] THEN <<SubSeq(text, Begin(k - 1), spans[k] - 1)>> ELSE <<>>
      parts == [k \in DOMAIN spans |->
                  Between(k) \o <<SubSeq(text, spans[k], Begin(k) - 1)>>]
      last == SubSeq(text, Begin(Len(spans)), Len(text))
  IN  FlattenSeq(parts) \o (IF last = <<>> THEN <<>> ELSE <<last>>)

\* LoadVocab and ConvertTokenToId: the number of the line, from 0.
ConvertTokenToId(token) ==
  IF InVocab(token) THEN Max({i \in DOMAIN TkVocab : TkVocab[i] = token}) - 1
  ELSE Max({i \in DOMAIN TkVocab : TkVocab[i] = TkUnk}) - 1

GetInputIds(tokens) == [i \in DOMAIN tokens |-> ConvertTokenToId(tokens[i])]

\* Encode, its first half, is the ids of the text.  Tokenize takes the parts of
\* the text one after another through the same functions; here all parts take
\* one function at a time, and a special token goes round them.
TkSplit ==
  /\ tk.at = "text"
  /\ tk' = [at |-> "parts", text |-> Strip(tk.text), parts |-> SplitBySpecialToken(Strip(tk.text)),
            words |-> <<>>, pieces |-> <<>>, max |-> tk.max, opt |-> tk.opt]

TkEachPart(from, to, results) ==
  /\ tk.at = from
  /\ tk' = [tk EXCEPT !.at = to, !.words = [i \in DOMAIN tk.parts |->
              IF tk.parts[i] \in Range(TkSpecial) THEN <<tk.parts[i]>> ELSE results[i]]]

TkBasicTokens ==
  TkEachPart("parts", "tokens", [i \in DOMAIN tk.parts |-> BasicTokens(tk.parts[i])])

TkBasicWords ==
  TkEachPart("tokens", "words", [i \in DOMAIN tk.words |-> BasicWords(tk.words[i])])

TkPieces ==
  /\ tk.at = "words"
  /\ tk' = [tk EXCEPT !.at = "pieces", !.pieces = [i \in DOMAIN tk.words |->
              [k \in DOMAIN tk.words[i] |-> PiecesOf(tk.words[i][k])]]]

TkGetIds ==
  /\ tk.at = "pieces"
  /\ tk' = [at |-> "ids", a |-> GetInputIds(FlattenSeq(FlattenSeq(tk.pieces))), b |-> <<>>,
            max |-> tk.max, opt |-> tk.opt]

BuildInputsWithSpecialTokens(a, b) ==
  LET cls == ConvertTokenToId(TkCls)
      sep == ConvertTokenToId(TkSep)
  IN  <<cls>> \o a \o <<sep>> \o (IF b = <<>> THEN <<>> ELSE b \o <<sep>>)

CreateTokenTypeIds(a, b) ==
  [i \in 1..(Len(a) + 2) |-> 0] \o
  (IF b = <<>> THEN <<>> ELSE [i \in 1..(Len(b) + 1) |-> 1])

\* Mutant: a pair is counted like a single text.
SpecialTokensOfOne(pair) == 2

NumSpecialTokensToAdd(pair) == IF pair THEN 3 ELSE 2

\* truncateSequence: n ids too many; they are taken from the right.
Truncated(a, b, n, how) ==
  LET Cut(s) == SubSeq(s, 1, Len(s) - n)
      longest[i \in 0..n] ==
        IF i = 0 THEN <<a, b>>
        ELSE LET p == longest[i - 1]
             IN  IF Len(p[1]) < Len(p[2]) THEN <<p[1], Front(p[2])>> ELSE <<Front(p[1]), p[2]>>
  IN  IF n <= 0 THEN <<a, b>>
      ELSE IF b = <<>>
           THEN IF how # "ONLY_SECOND" /\ Len(a) > n THEN <<Cut(a), b>> ELSE <<a, b>>
      ELSE IF how = "LONGEST_FIRST" THEN longest[n]
      ELSE IF how = "ONLY_SECOND" THEN IF Len(b) > n THEN <<a, Cut(b)>> ELSE <<a, b>>
      ELSE IF Len(a) > n THEN <<Cut(a), b>> ELSE <<a, b>>

\* pad: to the right, never shorter.
Padded(s, n, with) == s \o [i \in 1..(n - Len(s)) |-> with]

\* Encode, its second half: truncation, special tokens and padding.
TkEncode ==
  /\ tk.at = "ids"
  /\ LET total == Len(tk.a) + Len(tk.b) +
                  (IF tk.opt.special THEN NumSpecialTokensToAdd(tk.b # <<>>) ELSE 0)
         cut == Truncated(tk.a, tk.b, total - tk.max, tk.opt.truncate)
         ids == IF tk.opt.special THEN BuildInputsWithSpecialTokens(cut[1], cut[2]) ELSE cut[1] \o cut[2]
         types == IF tk.opt.special THEN CreateTokenTypeIds(cut[1], cut[2])
                  ELSE IF cut[2] = <<>> THEN <<>> ELSE [i \in DOMAIN ids |-> 0]
         n == IF tk.opt.padding = "MAX_LENGTH" THEN Max({tk.max, Len(ids)}) ELSE Len(ids)
         missing == n - Len(ids)
     IN  tk' = [at |-> "encoded", of |-> tk,
                ids |-> Padded(ids, n, ConvertTokenToId(TkPad)),
                types |-> types \o [i \in 1..missing |-> 0],
                mask |-> Padded([i \in DOMAIN ids |-> 1], n, 0)]

\* TokenizersEncode: the model is given the ids in front of the first 0.
TkModelInput ==
  /\ tk.at = "encoded"
  /\ LET zeros == {i \in DOMAIN tk.ids : tk.ids[i] = 0}
     IN  tk' = [at |-> "input", of |-> tk.of,
                ids |-> IF zeros = {} THEN tk.ids ELSE SubSeq(tk.ids, 1, Min(zeros) - 1)]

TkNext ==
  \/ TkSplit \/ TkBasicTokens \/ TkBasicWords \/ TkPieces \/ TkGetIds
  \/ TkEncode \/ TkModelInput

-----------------------------------------------------------------------------
(* Properties *)

Joined(parts) == FlattenSeq(parts)

\* Nothing of a text is lost or doubled when it is cut at the special tokens,
\* and a special token that is not followed by another closing bracket is a
\* part of its own (FundamentalTokenizer::SplitBySpecialToken; the walk over
\* all special tokens at once takes a bracket for the one of a longer token).
TkSplitExact ==
  tk.at = "parts" =>
    LET Starts(k) == Len(Joined(SubSeq(tk.parts, 1, k - 1))) + 1
    IN  /\ Joined(tk.parts) = tk.text
        /\ \A i \in DOMAIN tk.text, j \in DOMAIN TkSpecial :
             LET e == i + Len(TkSpecial[j]) - 1
             IN  /\ e <= Len(tk.text)
                 /\ SubSeq(tk.text, i, e) = TkSpecial[j]
                 /\ e = Len(tk.text) \/ tk.text[e + 1] # "]"
                 => \E k \in DOMAIN tk.parts : Starts(k) = i /\ tk.parts[k] = TkSpecial[j]

\* A cut of a word: the pieces spell it, each is in the vocabulary, and none
\* could be longer.
SpelledBy(word, pieces) ==
  LET Chars(p) == IF p[1] = "##" THEN Tail(p) ELSE p
      Before(k) == Len(Joined([i \in 1..(k - 1) |-> Chars(pieces[i])]))
  IN  /\ Joined([k \in DOMAIN pieces |-> Chars(pieces[k])]) = word
      /\ \A k \in DOMAIN pieces :
           /\ InVocab(pieces[k])
           /\ \A e \in (Before(k) + 1)..Len(word) :
                InVocab(Piece(word, Before(k) + 1, e)) => e <= Before(k + 1)

\* A word becomes the pieces of the vocabulary that spell it, none of which
\* could be longer, or it is unknown as a whole because it is too long or no
\* such cut exists (WordpieceTokenizer::Tokenize).
TkPiecesSpellTheWord ==
  tk.at = "pieces" =>
    \A i \in DOMAIN tk.words : \A k \in DOMAIN tk.words[i] :
      tk.words[i][k] = <<>>
      \/ tk.words[i][k] \in Range(TkSpecial)
      \/ IF tk.pieces[i][k] = <<TkUnk>>
         THEN Len(tk.words[i][k]) > TkMaxChars \/ ~InVocab(tk.words[i][k])
         ELSE SpelledBy(tk.words[i][k], tk.pieces[i][k])

\* The model gets rows of one length: with the default strategies the ids are
\* exactly max_length, for a single text and for a pair, and the mask has its
\* ones where the ids are not padding; with special tokens the types go with
\* the ids (FundamentalTokenizer::Encode, truncateSequence, pad).
TkRowsFit ==
  tk.at = "encoded" =>
    /\ Len(tk.mask) = Len(tk.ids)
    /\ tk.of.opt.special => Len(tk.types) = Len(tk.ids)
    /\ tk.of.opt.truncate = "LONGEST_FIRST" /\ tk.of.opt.special => Len(tk.ids) <= tk.of.max
    /\ tk.of.opt.truncate = "LONGEST_FIRST" /\ tk.of.opt = TkDefaults => Len(tk.ids) = tk.of.max

\* Whatever is cut off, the input of the model starts with the mark of the
\* beginning and, unless the text itself holds the padding token, ends with
\* the separator (TokenizersEncode, BertProcess).
TkInputIsFramed ==
  tk.at = "input" /\ tk.of.opt.special =>
    /\ tk.ids[1] = ConvertTokenToId(TkCls)
    /\ ConvertTokenToId(TkPad) \notin Range(tk.of.a) => Last(tk.ids) = ConvertTokenToId(TkSep)

\* A text reaches the model as its words, complete and in rows of one length
\* (FundamentalTokenizer::Encode, TokenizersEncode).
TkCorrect == TkSplitExact /\ TkPiecesSpellTheWord /\ TkRowsFit /\ TkInputIsFramed
=============================================================================
