------------------------------- MODULE Names -------------------------------
(***************************************************************************)
(* What the name of a file says (parser.py, patterns.py).  A path is a     *)
(* sequence of names, the last one the file's without its format; a name   *)
(* is a sequence of tokens parted by one separator each.  A token is a     *)
(* number with so many digits, or a word with none.  Which separator, and  *)
(* the case of letters, tell no two names apart.  What may be None in the  *)
(* code is a set here, empty or of one.                                    *)
(***************************************************************************)
EXTENDS Integers, SequencesExt

Word(word) == [word |-> word, value |-> 0, digits |-> 0]
Number(value, digits) == [word |-> "", value |-> value, digits |-> digits]

Years == 1900 .. 2100

Issue(paper, kind, year, number, day) ==
    [paper |-> paper, kind |-> kind, year |-> year, number |-> number, day |-> day]

(* The first result of several that is one.                                *)
FirstOf(results, otherwise) ==
    LET found == {i \in DOMAIN results : results[i] # {}}
    IN  IF found = {} THEN otherwise ELSE results[Min(found)]

---------------------------------------------------------------------------
(* The built-in rules.                                                     *)
DaysOf(year, month) ==
    CASE month = 2 -> IF year % 4 = 0 /\ (year % 100 # 0 \/ year % 400 = 0) THEN 29 ELSE 28
      [] month \in {4, 6, 9, 11} -> 30
      [] OTHER -> 31

IsDate(year, month, day) == month \in 1 .. 12 /\ day \in 1 .. DaysOf(year, month)

(* Tokens of the name from place i on have these numbers of digits.        *)
Reads(name, i, digits) ==
    /\ i + Len(digits) - 1 <= Len(name)
    /\ \A k \in DOMAIN digits : name[i + k - 1].digits \in digits[k]

(* Year, month and day in this order or the other, anything after them;    *)
(* only the first place where they may stand is looked at.                 *)
Daily(name, digits, y, d) ==
    LET places == {i \in 2 .. Len(name) : Reads(name, i, digits)}
        At(k) == name[Min(places) + k].value
    IN  IF places # {} /\ At(y) \in Years /\ IsDate(At(y), At(1), At(d))
        THEN {Issue(SubSeq(name, 1, Min(places) - 1), "day", At(y), At(1), At(d))} ELSE {}

(* Year and number, in this order or the other, at the end.                *)
YearNumber(name, digits, y, n) ==
    LET i == Len(name) - 1
    IN  IF i >= 2 /\ Reads(name, i, digits) /\ name[i + y].value \in Years /\ name[i + n].value \in 1 .. 999
        THEN {Issue(SubSeq(name, 1, i - 1), "undecided", name[i + y].value, name[i + n].value, 0)} ELSE {}

(* parse_issue_filename.                                                   *)
ParseName(name) ==
    FirstOf(<<Daily(name, <<{4}, 1 .. 2, 1 .. 2>>, 0, 2), Daily(name, <<1 .. 2, 1 .. 2, {4}>>, 2, 0),
              YearNumber(name, <<{4}, 1 .. 3>>, 0, 1), YearNumber(name, <<1 .. 3, {4}>>, 1, 0)>>, {})

---------------------------------------------------------------------------
(* Patterns: a part for each name from a folder down to the file, and the  *)
(* publication, none if {paper} tells it.  A part is a sequence of texts   *)
(* and placeholders parted by separators; an open one has {any} right      *)
(* behind it.                                                              *)
Text(token) == [is |-> "text", token |-> token, open |-> FALSE]
Holder(is) == [is |-> is, token |-> Word(""), open |-> FALSE]
Open(is) == [Holder(is) EXCEPT !.open = TRUE]

Digits == [year |-> 4 .. 4, month |-> 1 .. 2, day |-> 1 .. 2, number |-> 1 .. 4]
MaxParts == 4       \* MAX_PARTS
MaxFreeText == 2    \* MAX_FREE_TEXT

Elements(parts) == UNION {{<<i, e>> : e \in DOMAIN parts[i]} : i \in DOMAIN parts}
Places(parts, is) == {p \in Elements(parts) : parts[p[1]][p[2]].is = is}
Has(parts, is) == Places(parts, is) # {}

(* compile_pattern accepts it.                                             *)
IsPattern(parts) ==
    /\ Len(parts) \in 1 .. MaxParts
    /\ \A i \in DOMAIN parts :
          /\ parts[i] # <<>>
          /\ Cardinality({e \in DOMAIN parts[i] : parts[i][e].is \in {"paper", "any"} \/ parts[i][e].open})
               <= MaxFreeText
    /\ \A is \in DOMAIN Digits \cup {"paper"} : Cardinality(Places(parts, is)) <= 1
    /\ Has(parts, "year")
    /\ Has(parts, "number") => ~Has(parts, "month") /\ ~Has(parts, "day")
    /\ Has(parts, "day") => Has(parts, "month")
    /\ Has(parts, "number") \/ Has(parts, "month")

(* How many tokens an element may stand for, from place t on.              *)
Covers(element, name, t) ==
    LET some == 1 .. Len(name) - t + 1
        one == 1 .. 1
    IN  IF t > Len(name) THEN {}
        ELSE IF element.is \in {"paper", "any"} THEN some
        ELSE IF element.is = "text" THEN {k \in one : name[t] = element.token}
        ELSE IF element.open THEN {k \in some : name[t].digits >= Min(Digits[element.is])}
        ELSE {k \in one : name[t].digits \in Digits[element.is]}

(* What each element of a part stands for in a name: as little as lets the *)
(* rest fit.                                                               *)
Match(part, name) ==
    LET n == Len(part)
        Fits[e \in 1 .. n + 1, t \in 1 .. Len(name) + 1] ==
            IF e = n + 1 THEN t = Len(name) + 1
            ELSE \E k \in Covers(part[e], name, t) : Fits[e + 1, t + k]
        Starts[e \in 1 .. n + 1] ==
            IF e = 1 THEN <<1>>
            ELSE LET before == Starts[e - 1]
                     t == before[e - 1]
                 IN  Append(before, t + Min({k \in Covers(part[e - 1], name, t) : Fits[e, t + k]}))
        starts == Starts[n + 1]
    IN  IF Fits[1, 1] THEN {[e \in 1 .. n |-> [is |-> part[e].is, tokens |-> SubSeq(name, starts[e], starts[e + 1] - 1)]]}
        ELSE {}

(* NamePattern.parse: the parts read the last names of the path.  Many     *)
(* digits before an {any} are read as far as the placeholder goes.         *)
Described(parts, path) ==
    LET above == Len(path) - Len(parts)
        matches == [i \in DOMAIN parts |-> Match(parts[i], path[above + i])]
        matched == UNION {UNION {ToSet(m) : m \in matches[i]} : i \in DOMAIN parts}
        Tokens(is) == (CHOOSE m \in matched : m.is = is).tokens
        Value(is) == LET token == Tokens(is)[1]
                     IN  token.value \div 10 ^ Max({0, token.digits - Max(Digits[is])})
        paper == IF Has(parts, "paper") THEN Tokens("paper") ELSE <<>>
        year  == Value("year")
    IN  IF above < 0 THEN {}
        ELSE IF (\E i \in DOMAIN parts : matches[i] = {}) \/ year \notin Years THEN {}
        ELSE IF Has(parts, "day")
             THEN {Issue(paper, "day", year, m, Value("day")) : m \in {m \in {Value("month")} : IsDate(year, m, Value("day"))}}
        ELSE IF Has(parts, "month")
             THEN {Issue(paper, "month", year, m, 0) : m \in {Value("month")} \cap 1 .. 12}
        ELSE {Issue(paper, "number", year, n, 0) : n \in {Value("number")} \cap 1 .. 999}

(* The publication the pattern is for goes before the one it reads.        *)
Parse(pattern, path) ==
    {[issue EXCEPT !.paper = IF pattern.publication # <<>> THEN pattern.publication ELSE @] :
        issue \in Described(pattern.parts, path)}

(* Faulty: the patterns that cover folders come before the built-in rules. *)
ReadAny(path, taught) ==
    FirstOf([i \in DOMAIN taught |-> Parse(taught[i], path)], ParseName(path[Len(path)]))

(* Scanner._parse: the first pattern that reads the file, then the         *)
(* built-in rules; one that covers folders only where these fail.          *)
Read(path, taught) ==
    LET builtin == ParseName(path[Len(path)])
    IN  FirstOf([i \in DOMAIN taught |-> IF Len(taught[i].parts) > 1 /\ builtin # {} THEN {}
                                          ELSE Parse(taught[i], path)], builtin)

---------------------------------------------------------------------------
(* _suggest_from_name: the year, then the first numbers after it.          *)
SuggestFromName(name) ==
    LET years == {i \in DOMAIN name : name[i].digits = 4 /\ name[i].value \in Years}
        y == Min(years)
        numbers == {i \in DOMAIN name : i > y /\ name[i].digits > 0}
        first == Min(numbers)
        daily == Cardinality(numbers) > 1
                   /\ IsDate(name[y].value, name[first].value, name[Min(numbers \ {first})].value)
        last == IF daily THEN Min(numbers \ {first}) ELSE first
        Element(i) == CASE i = y -> Holder("year")
                        [] i = first -> Holder(IF daily THEN "month" ELSE "number")
                        [] i = last /\ i # first -> Holder("day")
                        [] OTHER -> Text(name[i])
    IN  IF years = {} THEN {}
        ELSE IF numbers = {} THEN {}
        ELSE {[part |-> [i \in 1 .. last |-> [Element(i) EXCEPT !.open = i = last /\ last < Len(name)]],
               publication |-> SubSeq(name, 1, y - 1)]}

(* suggest_pattern: from the file's name, else from the lowest folder that *)
(* tells, the publication being the file's name.                           *)
Suggest(path) ==
    LET guesses == [i \in DOMAIN path |-> SuggestFromName(path[i])]
        telling == {i \in DOMAIN path : guesses[i] # {} /\ Len(path) - i < MaxParts}
        i == Max(telling)
        Above(k) == <<Holder(IF k = Len(path) - i + 1 THEN "paper" ELSE "any")>>
    IN  IF telling = {} THEN {}
        ELSE IF i = Len(path) THEN {[parts |-> <<g.part>>, publication |-> g.publication] : g \in guesses[i]}
        ELSE {[parts |-> [k \in 1 .. Len(path) - i + 1 |-> IF k = 1 THEN g.part ELSE Above(k)],
               publication |-> <<>>] : g \in guesses[i]}
=============================================================================
