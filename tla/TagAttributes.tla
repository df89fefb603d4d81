---------------------------- MODULE TagAttributes ----------------------------
(***************************************************************************)
(* What becomes of the text of a tag (esitag/esi_tag.go): SplitAttributes  *)
(* cuts it into names and values, ParseRaw makes an entity of them, and    *)
(* the path configuration fills in what the tag leaves out.                *)
(*                                                                         *)
(* A text is a sequence of symbols: a symbol is one of Chars, or a word of *)
(* three bytes or more.                                                    *)
(***************************************************************************)
EXTENDS Integers, SequencesExt

CONSTANTS
    Durations,  \* what time.ParseDuration accepts: [texts -> Int]
    Sizes,      \* what humanize.ParseBytes accepts: [texts -> Nat]
    Files,      \* the files of templates and messages: [texts -> texts]
    FileNames,  \* the texts that end like the name of such a file
    HandlerOf,  \* the texts that lead to a resource handler: [texts -> kinds]
    LowerCase   \* the words with upper-case letters: [words -> words]

ASSUME AttributeAssumption ==
    /\ DOMAIN Files \subseteq FileNames
    /\ \A text \in DOMAIN Durations : Durations[text] \in Int
    /\ \A text \in DOMAIN Sizes : Sizes[text] \in Nat
    /\ \A text \in DOMAIN HandlerOf : HandlerOf[text] \in {"http", "grpc", "shell", "store"}
    /\ \A word \in DOMAIN LowerCase : LowerCase[word] # word

Quotes == {"'", "\""}
Spaces == {" ", "\n"}
Chars  == Quotes \cup Spaces \cup
          {"<", ">", "/", "e", "s", "i", ":", "=", ",", "{", "}", "x", "0", "1", "H", "C",
           "-", "?", "#", "@"}

Lower(text) == [i \in DOMAIN text |->
                  IF text[i] \in DOMAIN LowerCase THEN LowerCase[text[i]] ELSE text[i]]

Capital(word) == IF word \notin Range(LowerCase) THEN word
                 ELSE CHOOSE w \in DOMAIN LowerCase : LowerCase[w] = word
Upper(text) == [i \in DOMAIN text |-> Capital(text[i])]

(* strings.TrimSpace *)
Trimmed(text) ==
    LET kept == {i \in DOMAIN text : text[i] \notin Spaces}
    IN  IF kept = {} THEN <<>>
        ELSE SubSeq(text, CHOOSE i \in kept : \A j \in kept : i <= j,
                          CHOOSE i \in kept : \A j \in kept : i >= j)

(* The part of a comma separated list, without any space *)
Dense(text) == FlattenSeq([i \in DOMAIN text |-> IF text[i] \in Spaces THEN <<>> ELSE <<text[i]>>])

(* strings.Split *)
SplitAt(text, separator) ==
    FoldLeft(LAMBDA parts, s : IF s = separator THEN Append(parts, <<>>)
                               ELSE Append(Front(parts), Append(Last(parts), s)),
             << <<>> >>, text)

CommaListToSlice(text) ==
    LET parts == SplitAt(Dense(text), ",")
    IN  IF parts = << <<>> >> THEN <<>> ELSE parts

-------------------------------------------------------------------------------
(* SplitAttributes *)

(* The function of strings.FieldsFunc: a quote closes with the same quote; *)
(* between, nothing separates                                              *)
Separates(quote, s) == quote = "none" /\ s \notin Quotes /\ s \in Spaces \cup {"="}
QuoteAfter(quote, s) == IF s = quote THEN "none"
                        ELSE IF quote # "none" THEN quote
                        ELSE IF s \in Quotes THEN s ELSE "none"

(* Variant of Fields: quotes are not told apart *)
BadFields(text) ==
    LET scan == FoldLeft(
          LAMBDA acc, s :
             [quote |-> IF s \in Quotes THEN (IF acc.quote = "none" THEN "'" ELSE "none")
                        ELSE acc.quote,
              field |-> IF Separates(acc.quote, s) THEN <<>> ELSE Append(acc.field, s),
              fields |-> IF Separates(acc.quote, s) /\ acc.field # <<>>
                         THEN Append(acc.fields, acc.field) ELSE acc.fields],
          [quote |-> "none", field |-> <<>>, fields |-> <<>>], text)
    IN  IF scan.field = <<>> THEN scan.fields ELSE Append(scan.fields, scan.field)

(* strings.FieldsFunc *)
Fields(text) ==
    LET scan == FoldLeft(
          LAMBDA acc, s :
             [quote |-> QuoteAfter(acc.quote, s),
              field |-> IF Separates(acc.quote, s) THEN <<>> ELSE Append(acc.field, s),
              fields |-> IF Separates(acc.quote, s) /\ acc.field # <<>>
                         THEN Append(acc.fields, acc.field) ELSE acc.fields],
          [quote |-> "none", field |-> <<>>, fields |-> <<>>], text)
    IN  IF scan.field = <<>> THEN scan.fields ELSE Append(scan.fields, scan.field)

(* The first and the last byte of three or more are taken for quotes; a    *)
(* word without quotes loses letters                                       *)
Cut(s) == IF s \in Chars THEN <<>> ELSE <<"cut">>
Unquoted(field) ==
    IF Len(field) <= 2 /\ Range(field) \subseteq Chars THEN field
    ELSE IF Len(field) = 1 THEN <<"cut">>
    ELSE Cut(Head(field)) \o SubSeq(field, 2, Len(field) - 1) \o Cut(Last(field))

(* The first field is the word include; the others are names and values *)
SplitAttributes(raw) ==
    LET fields == Fields(raw)
        n      == IF fields = <<>> THEN 0 ELSE Len(fields) - 1
    IN  [ok    |-> n % 2 = 0,
         attrs |-> [i \in 1..(n \div 2) |->
                      [name |-> fields[2 * i], value |-> Trimmed(Unquoted(fields[2 * i + 1]))]]]

-------------------------------------------------------------------------------
(* Entity.ParseRaw *)

NoHeaders == [all |-> FALSE, names |-> <<>>]
NewEntity == [src |-> <<>>, key |-> <<>>, coalesce |-> FALSE, printdebug |-> FALSE,
              condition |-> FALSE, onerror |-> <<>>, timeout |-> 0, ttl |-> 0,
              maxbodysize |-> 0, forwardpostdata |-> FALSE,
              forwardheaders |-> NoHeaders, returnheaders |-> NoHeaders]

Names == DOMAIN NewEntity
Name(field)    == IF Len(field) = 1 THEN field[1] ELSE "several"
Ignored(field) == \/ Len(field) = 1 /\ field[1] \in Chars
                  \/ field[1] \in {"x", "xsrc"}

True  == {<<"1">>, <<"true">>}
Bools == True \cup {<<"0">>, <<"false">>}

(* Text, or the contents of the file it names *)
ParsesOnError(text) == text \in FileNames => text \in DOMAIN Files
OnErrorText(text)   == IF text \in FileNames THEN Files[text] ELSE text

(* NewResource looks for a handler of the scheme of a URL or of an alias *)
Converts(name, text) ==
    CASE name = "src"                          -> text \in DOMAIN HandlerOf
      [] name \in {"coalesce", "printdebug"}   -> text \in Bools
      [] name \in {"timeout", "ttl"}           -> text \in DOMAIN Durations
      [] name = "maxbodysize"                  -> text \in DOMAIN Sizes
      [] name = "onerror"                      -> ParsesOnError(text)
      [] OTHER                                 -> TRUE

(* The names get one spelling, as those of a request have it *)
HeaderList(old, text) == IF text = <<"all">> THEN [old EXCEPT !.all = TRUE]
                         ELSE [old EXCEPT !.names = CommaListToSlice(Lower(text))]

(* The setting of a name, when old is the one so far *)
Setting(name, old, text) ==
    CASE name = "src"                          -> Append(old, text)
      [] name \in {"coalesce", "printdebug"}   -> text \in True
      [] name = "condition"                    -> TRUE
      [] name \in {"timeout", "ttl"}           -> Durations[text]
      [] name = "maxbodysize"                  -> Sizes[text]
      [] name = "onerror"                      -> OnErrorText(text)
      [] name = "forwardpostdata"              -> Lower(text) \in True
      [] name \in {"forwardheaders", "returnheaders"} -> HeaderList(old, text)
      [] OTHER                                 -> text

(* The loop over the attributes ends with the first error.  A tag without  *)
(* any text is left as it is; every other one needs a resource.            *)
ParseRaw(raw) ==
    LET split == SplitAttributes(raw)
        Parse(acc, attr) ==
            LET name == Name(attr.name)
            IN  IF ~acc.ok THEN acc
                ELSE IF name \notin Names THEN [acc EXCEPT !.ok = Ignored(attr.name)]
                ELSE IF ~Converts(name, attr.value) THEN [acc EXCEPT !.ok = FALSE]
                ELSE [acc EXCEPT !.entity[name] = Setting(name, @, attr.value)]
        parsed == FoldLeft(Parse, [ok |-> split.ok, entity |-> NewEntity], split.attrs)
    IN  IF raw = <<>> \/ ~split.ok THEN [ok |-> raw = <<>>, entity |-> NewEntity]
        ELSE [parsed EXCEPT !.ok = @ /\ parsed.entity.src # <<>>]

(* Entities.ParseRaw: one tag that fails makes the page fail *)
ParsedTags(raws) == [ok   |-> \A i \in DOMAIN raws : ParseRaw(raws[i]).ok,
                     tags |-> [i \in DOMAIN raws |-> ParseRaw(raws[i]).entity]]

-------------------------------------------------------------------------------
(* PathConfig.UpsertESITags, Entity.SetDefaultConfig *)

(* Variant of WithDefaults: a negative timeout of the tag is kept *)
BadWithDefaults(e, site) ==
    [e EXCEPT !.onerror = IF @ = <<>> THEN site.on_error ELSE @,
              !.maxbodysize = IF @ = 0 THEN site.max_body_size ELSE @,
              !.timeout = IF @ = 0 /\ site.timeout > 0 THEN site.timeout ELSE @,
              !.ttl = IF @ < 1 /\ site.ttl > 0 THEN site.ttl ELSE @]

WithDefaults(e, site) ==
    [e EXCEPT !.onerror = IF @ = <<>> THEN site.on_error ELSE @,
              !.maxbodysize = IF @ = 0 THEN site.max_body_size ELSE @,
              !.timeout = IF @ < 1 /\ site.timeout > 0 THEN site.timeout ELSE @,
              !.ttl = IF @ < 1 /\ site.ttl > 0 THEN site.ttl ELSE @]
==============================================================================
