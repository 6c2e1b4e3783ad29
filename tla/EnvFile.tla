------------------------------- MODULE EnvFile -------------------------------
(***************************************************************************)
(* How the dashboard writes a setting to the host's .env file and reads it *)
(* back (web/routes/api.py; web/services/mail_client.py reads it with the  *)
(* same rule).  A value is a sequence of characters, of which those matter *)
(* that quoting and reading tell apart.  The routes strip a value's ends   *)
(* and nothing else, so a line end may stand within it.  The docstring of  *)
(* _env_value_escape has it that quotes keep line ends "from breaking      *)
(* parsing": they do not, for the file is read line by line.               *)
(*                                                                         *)
(* A definition whose name begins with Bug is a mistake the code does not  *)
(* make: put in place of the definition below it, it breaks a property.    *)
(***************************************************************************)
EXTENDS Naturals, Sequences

CONSTANT MaxEnvLen  \* bound: the length of a value

Sq == "'"
Dq == "dq"
Bs == "bs"
LineEnd == "newline"            \* or CR: the file is read in text mode
Special == {"=", Sq, LineEnd}   \* and blank, $, #, which quoting treats alike
EnvChars == {"x", Dq, Bs} \cup Special

VARIABLE posted  \* the value a form posts: one, or none

EnvValues == UNION {[1..n -> EnvChars] : n \in 0..MaxEnvLen}

EnvInit == posted \in {{v} : v \in EnvValues}

\* The only way '"'"' is written in a file: what stands for a single quote.
SqEscape == <<Sq, Dq, Sq, Dq, Sq>>

\* s with each w, from the left, replaced by r.
Replaced(s, w, r) ==
    LET At(i) == i + Len(w) - 1 <= Len(s) /\ SubSeq(s, i, i + Len(w) - 1) = w
        from[i \in 1..(Len(s) + Len(w))] ==
            IF i > Len(s) THEN <<>>
            ELSE IF At(i) THEN r \o from[i + Len(w)]
            ELSE <<s[i]>> \o from[i + 1]
    IN  from[1]

EnclosedIn(q, s) == Len(s) >= 2 /\ s[1] = q /\ s[Len(s)] = q
Inside(s) == SubSeq(s, 2, Len(s) - 1)

BugEscaped(v) ==
    IF \E i \in DOMAIN v : v[i] \in Special THEN <<Sq>> \o v \o <<Sq>> ELSE v

\* _env_value_escape
Escaped(v) ==
    IF \E i \in DOMAIN v : v[i] \in Special
    THEN <<Sq>> \o Replaced(v, <<Sq>>, SqEscape) \o <<Sq>>
    ELSE v

Broken(s) == \E i \in DOMAIN s : s[i] = LineEnd

\* What of s stands on the key's own line.
FirstLine(s) ==
    IF ~Broken(s) THEN s
    ELSE LET end == CHOOSE i \in DOMAIN s : s[i] = LineEnd /\ \A j \in 1..(i - 1) : s[j] # LineEnd
         IN  SubSeq(s, 1, end - 1)

Unquoted(s) ==
    IF EnclosedIn(Sq, s) THEN Replaced(Inside(s), SqEscape, <<Sq>>)
    ELSE IF EnclosedIn(Dq, s)
    THEN Replaced(Replaced(Inside(s), <<Bs, Dq>>, <<Dq>>), <<Bs, Bs>>, <<Bs>>)
    ELSE s

\* _read_env_value
Unescaped(s) == Unquoted(FirstLine(s))

-----------------------------------------------------------------------------
(* Properties *)

\* Every value is read back as it was written, whatever quotes it has, but for two
\* kinds: one with a line end, which quoting does not protect and which is cut where
\* it ends; and one that is enclosed in double quotes and has nothing to be quoted
\* for, which is written as it is, and whose quotes are taken for quoting.
EnvRoundTrip ==
    \A v \in posted :
        Unescaped(Escaped(v)) = v
          <=> /\ ~Broken(v)
              /\ ~(EnclosedIn(Dq, v) /\ \A i \in DOMAIN v : v[i] \notin Special)
=============================================================================
