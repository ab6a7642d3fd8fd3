----------------------------- MODULE FetchLine -----------------------------
(***************************************************************************)
(* read_config (src/src/libpkgadd.c) and the parser of its lines,          *)
(* fetch_line_fields (src/src/misc.c), which splits a line in place: it    *)
(* reads at i, writes at j, and leaves the fields one after the other,     *)
(* each with a NUL behind it.  One action is one turn of its loop.         *)
(* Characters are strings; "U" stands for the word UPGRADE, "I" for        *)
(* INSTALL, "Y" begins YES, and a tab is a blank.                          *)
(***************************************************************************)
EXTENDS Integers, Sequences, FiniteSets

CONSTANTS
    Char,       \* the characters of a line
    Configs,    \* the contents of pkgadd.conf: sequences of lines
    BadRegex    \* the patterns regcomp rejects

NUL == "NUL"
Lines == {t \in Seq(Char) : \A k \in 1..Len(t) : t[k] = "\n" => k = Len(t)}

\* What fgets can return: no NUL, and a newline only at the end.
ASSUME CharAssumption == NUL \notin Char
ASSUME ConfigsAssumption == \A c \in Configs : c \in Seq(Lines)

VARIABLES
    conf, lineno,       \* the file, and the lines of it that were read
    line, i, j, n,      \* the buffer, read and written positions, fields so far
    esc, quo,           \* behind a backslash? between quotes?
    tmp,                \* what fetch_line_fields returned
    rules,              \* config_rules
    fpc

fetchVars == <<conf, lineno, line, i, j, n, esc, quo, tmp, rules, fpc>>

FetchStart(c) ==
    /\ conf = c /\ lineno = 0 /\ rules = <<>>
    /\ line = [k \in {0} |-> NUL] /\ i = 0 /\ j = 0 /\ n = 0
    /\ esc = FALSE /\ quo = FALSE /\ tmp = 0 /\ fpc = "fgets"

FetchInit == \E c \in Configs : FetchStart(c)

\* fgets, and the call of fetch_line_fields.
ReadLine ==
    /\ fpc = "fgets" /\ lineno < Len(conf)
    /\ lineno' = lineno + 1
    /\ LET t == conf[lineno'] IN
       line' = [k \in 0..Len(t) |-> IF k < Len(t) THEN t[k + 1] ELSE NUL]
    /\ i' = 0 /\ j' = 0 /\ n' = 0 /\ esc' = FALSE /\ quo' = FALSE /\ fpc' = "scan"
    /\ UNCHANGED <<conf, tmp, rules>>

EndOfFile ==
    /\ fpc = "fgets" /\ lineno = Len(conf)
    /\ fpc' = "done"
    /\ UNCHANGED <<conf, lineno, line, i, j, n, esc, quo, tmp, rules>>

-----------------------------------------------------------------------------
Blank == {" ", "\t"}

Skip == i' = i + 1 /\ UNCHANGED <<line, j>>
Copy == line' = [line EXCEPT ![j] = line[i]] /\ j' = j + 1 /\ i' = i + 1
Return(r) == tmp' = r /\ fpc' = "fetched"
Goes == fpc = "scan" /\ UNCHANGED <<conf, lineno, rules>>
Loops == Goes /\ UNCHANGED <<tmp, fpc>>

\* The end of the line or, outside of quotes, a comment.
FetchEnds ==
    /\ Goes
    /\ \/ line[i] \in {NUL, "\n"} /\ quo /\ Return(-1) /\ UNCHANGED line
       \/ line[i] \in {NUL, "\n", "#"} /\ ~quo /\ Return(n) /\ line' = [line EXCEPT ![j] = NUL]
    /\ UNCHANGED <<i, j, n, esc, quo>>

TwoNulsPerBlank ==
    /\ Loops /\ ~quo /\ line[i] \in Blank
    /\ IF line[i + 1] \in Blank \cup {"\n", "#"}
       THEN UNCHANGED <<n, line, j>>
       ELSE n' = n + 1 /\ line' = [line EXCEPT ![j] = NUL] /\ j' = j + 2
    /\ i' = i + 1 /\ UNCHANGED <<esc, quo>>

\* A blank outside of quotes ends a field when something follows.
Separator ==
    /\ Loops /\ ~quo /\ line[i] \in Blank
    /\ IF line[i + 1] \in Blank \cup {"\n", "#"}
       THEN UNCHANGED <<n, line, j>>
       ELSE n' = n + 1 /\ line' = [line EXCEPT ![j] = NUL] /\ j' = j + 1
    /\ i' = i + 1 /\ UNCHANGED <<esc, quo>>

\* Between quotes, blanks and # are text; they leave esc alone.
QuotedText == Loops /\ quo /\ line[i] \in Blank \cup {"#"} /\ Copy /\ UNCHANGED <<n, esc, quo>>

Quote ==
    /\ Loops /\ line[i] = "\""
    /\ \/ quo /\ esc /\ esc' = FALSE /\ Copy /\ UNCHANGED quo
       \/ ~(quo /\ esc) /\ quo' = ~quo /\ Skip /\ UNCHANGED esc
    /\ UNCHANGED n

StrayBackslash ==
    /\ Goes /\ line[i] = "\\" /\ ~quo
    /\ Return(-1)
    /\ UNCHANGED <<line, i, j, n, esc, quo>>

BackslashKeepsEsc ==
    /\ Loops /\ line[i] = "\\" /\ quo
    /\ IF esc THEN Copy ELSE Skip
    /\ esc' = TRUE /\ UNCHANGED <<n, quo>>

Backslash ==
    /\ Loops /\ line[i] = "\\" /\ quo
    /\ IF esc THEN Copy ELSE Skip
    /\ esc' = ~esc /\ UNCHANGED <<n, quo>>

Ordinary ==
    /\ Loops /\ line[i] \notin Blank \cup {NUL, "\n", "#", "\"", "\\"}
    /\ n' = IF n = 0 THEN 1 ELSE n
    /\ esc' = FALSE /\ Copy /\ UNCHANGED quo

-----------------------------------------------------------------------------
\* The C string in the buffer from position k on.
StringAt(k) ==
    LET e == CHOOSE m \in k..Len(conf[lineno]) :
                 line[m] = NUL /\ \A h \in k..(m - 1) : line[h] # NUL
    IN [h \in 1..(e - k) |-> line[k + h - 1]]
Following(k) == k + Len(StringAt(k)) + 1

EventWord == {<<"U">>, <<"I">>}
Pattern == StringAt(Following(0))

ReadRest == UNCHANGED <<conf, lineno, line, i, j, n, esc, quo, tmp>>

MakeRuleTwoFields ==
    /\ fpc = "fetched" /\ tmp \in {2, 3} /\ StringAt(0) \in EventWord /\ Pattern \notin BadRegex
    /\ rules' = Append(rules, [event |-> StringAt(0), pattern |-> Pattern,
                               yes |-> tmp = 3 /\ line[Following(Following(0))] = "Y"])
    /\ fpc' = "fgets" /\ ReadRest

\* Three fields, the first of them an event.
MakeRule ==
    /\ fpc = "fetched" /\ tmp = 3 /\ StringAt(0) \in EventWord /\ Pattern \notin BadRegex
    /\ rules' = Append(rules, [event |-> StringAt(0), pattern |-> Pattern,
                               yes |-> line[Following(Following(0))] = "Y"])
    /\ fpc' = "fgets" /\ ReadRest

IgnoreLine == fpc = "fetched" /\ tmp = 0 /\ fpc' = "fgets" /\ UNCHANGED rules /\ ReadRest

\* A parse error, an unknown rule, a pattern that does not compile: abort().
ConfigAbort ==
    /\ fpc = "fetched" /\ tmp # 0
    /\ tmp = 3 /\ StringAt(0) \in EventWord => Pattern \in BadRegex
    /\ fpc' = "abort" /\ UNCHANGED rules /\ ReadRest

FetchNext ==
    \/ ReadLine \/ EndOfFile
    \/ FetchEnds \/ Separator \/ QuotedText \/ Quote \/ StrayBackslash \/ Backslash \/ Ordinary
    \/ MakeRule \/ IgnoreLine \/ ConfigAbort

FetchSpec == FetchInit /\ [][FetchNext]_fetchVars

-----------------------------------------------------------------------------
(* What a line means, by its text alone.                                   *)

\* Escaped: behind an odd number of backslashes.  Inside: behind an odd number
\* of quotes that are not escaped.
Backslashes(t, k) == {m \in 1..(k - 1) : \A h \in m..(k - 1) : t[h] = "\\"}
Escaped(t, k) == Cardinality(Backslashes(t, k)) % 2 = 1
Flips(t, k) == t[k] = "\"" /\ ~Escaped(t, k)
Quotes(t, k) == {m \in 1..(k - 1) : Flips(t, m)}
Inside(t, k) == Cardinality(Quotes(t, k)) % 2 = 1

\* The characters before the comment or the end of the line.
Body(t) == {k \in 1..Len(t) : \A m \in 1..k : ~Inside(t, m) => t[m] \notin {"#", "\n"}}
IsSep(t, k) == ~Inside(t, k) /\ t[k] \in Blank
IsMark(t, k) == t[k] \in {"\"", "\\"} /\ ~Escaped(t, k)

FieldStarts(t) == {k \in Body(t) : ~IsSep(t, k) /\ (k = 1 \/ IsSep(t, k - 1))}
FieldText(t, s) ==
    {k \in Body(t) : k >= s /\ ~IsMark(t, k) /\ \A m \in s..k : ~IsSep(t, m)}
Nth(S, m) == CHOOSE k \in S : Cardinality({h \in S : h <= k}) = m
MeantFields(t) ==
    [f \in 1..Cardinality(FieldStarts(t)) |->
        LET ks == FieldText(t, Nth(FieldStarts(t), f))
        IN [m \in 1..Cardinality(ks) |-> t[Nth(ks, m)]]]

\* Quotes that are not closed, or a backslash outside of them.
IsBroken(t) ==
    \/ Inside(t, Cardinality(Body(t)) + 1)
    \/ \E k \in Body(t) : ~Inside(t, k) /\ t[k] = "\\"

MeantRule(t) ==
    [event |-> MeantFields(t)[1], pattern |-> MeantFields(t)[2],
     yes |-> MeantFields(t)[3] # <<>> /\ MeantFields(t)[3][1] = "Y"]
MeansRule(t) ==
    /\ ~IsBroken(t) /\ Len(MeantFields(t)) = 3
    /\ MeantFields(t)[1] \in EventWord /\ MeantFields(t)[2] \notin BadRegex

\* Lines the parser reads in a way of its own: a blank before the first field,
\* a blank as the last character of the file, a first field of blanks and #
\* only (or empty), and a backslash before a blank or # between quotes.
Indented(t) == FieldStarts(t) # {} /\ 1 \notin FieldStarts(t)
BlankAtEnd(t) == Len(t) > 0 /\ Len(t) \in Body(t) /\ IsSep(t, Len(t))
WordlessFirst(t) ==
    FieldStarts(t) # {} /\ \A c \in {MeantFields(t)[1][k] : k \in DOMAIN MeantFields(t)[1]} :
        c \in Blank \cup {"#", "\"", "\\"}
EscapedBlank(t) ==
    \E k \in 1..Len(t) : Inside(t, k) /\ Escaped(t, k) /\ t[k] \in Blank \cup {"#"}
Misread(t) == BlankAtEnd(t) \/ WordlessFirst(t) \/ EscapedBlank(t)

-----------------------------------------------------------------------------
\* Type correctness, and that the parser, which writes into the line it reads,
\* neither leaves it nor overtakes itself.
LineTypeOK ==
    /\ conf \in Seq(Lines) /\ lineno \in 0..Len(conf)
    /\ fpc \in {"scan", "fetched"} => lineno > 0
    /\ n \in Nat /\ esc \in BOOLEAN /\ quo \in BOOLEAN
    /\ tmp \in Int /\ fpc \in {"fgets", "scan", "fetched", "done", "abort"}
    /\ LET size == IF lineno = 0 THEN 0 ELSE Len(conf[lineno]) IN
       /\ line \in [0..size -> Char \cup {NUL}]
       /\ i \in 0..size /\ j \in 0..i
       /\ fpc = "scan" => line[size] = NUL
                          /\ \A k \in i..(size - 1) : line[k] = conf[lineno][k + 1]

\* The f-th string in the buffer begins behind the NUL of the one before it.
Nuls == {k \in DOMAIN line : line[k] = NUL}
FieldAt(f) == IF f = 1 THEN 0 ELSE Nth(Nuls, f - 1) + 1

\* What fetch_line_fields returns and leaves in the buffer is what the line
\* means: the number of its fields, and the fields one behind the other.
FieldsAsMeant ==
    fpc = "fetched" /\ ~Indented(conf[lineno]) /\ ~Misread(conf[lineno]) =>
        LET t == conf[lineno]
        IN IF IsBroken(t) THEN tmp = -1
           ELSE /\ tmp = Len(MeantFields(t))
                /\ \A f \in 1..tmp : StringAt(FieldAt(f)) = MeantFields(t)[f]

\* read_config takes over every rule of the file, in its order, and makes none
\* up; it gives up only at a line that is no rule, or an indented one.
RulesAsMeant ==
    LET meant == {k \in 1..lineno : MeansRule(conf[k])}
        clean == \A k \in 1..lineno : ~Misread(conf[k])
    IN /\ fpc = "done" /\ clean =>
            rules = [k \in 1..Cardinality(meant) |-> MeantRule(conf[Nth(meant, k)])]
       /\ fpc = "abort" /\ clean =>
            \/ Indented(conf[lineno]) \/ IsBroken(conf[lineno])
            \/ ~MeansRule(conf[lineno]) /\ MeantFields(conf[lineno]) # <<>>
=============================================================================
