--------------------------- MODULE MigrationScan ---------------------------
(***************************************************************************)
(* The migration classifier of host/void_migrate.rs: what a migration file *)
(* is split into, whether it is refused for opening its own transaction,   *)
(* and which plan kind it gets.  The worker computes the same plan; a      *)
(* deploy whose list hash differs from the worker's is refused.            *)
(*                                                                         *)
(* SQL is a sequence of symbols: "w" any other word byte, "begin" a        *)
(* transaction keyword, "bp" the text of a statement breakpoint, "--",     *)
(* and the single bytes that matter.                                       *)
(***************************************************************************)
EXTENDS Integers, Sequences, FiniteSets

CONSTANTS
    Symbols,   \* a subset of {"w", "begin", "bp", " ", ";", "'", "[", "]", "--", "/", "*", "nl"}
    MaxLen     \* BOUND: symbols of a file

VARIABLES
    sSql,   \* the file
    sAt,    \* where tokenize_sql's next segment starts
    sSegs,  \* the segments it has pushed
    sPlan   \* the file's plan kind, once classified

vars == <<sSql, sAt, sSegs, sPlan>>

Files == UNION {[1 .. n -> Symbols] : n \in 0 .. MaxLen}

MinOf(S) == CHOOSE x \in S : \A y \in S : x <= y

-----------------------------------------------------------------------------
(* tokenize_sql.  A segment that starts at i ends before TokenEnd(sql, i). *)

SymAt(sql, i) == IF i \in 1 .. Len(sql) THEN sql[i] ELSE "none"

Opens(sql, i) ==
    CASE SymAt(sql, i) = "--" -> "line"
      [] SymAt(sql, i) = "/" /\ SymAt(sql, i + 1) = "*" -> "block"
      [] SymAt(sql, i) = "'" -> "string"
      [] SymAt(sql, i) = "[" -> "ident"
      [] OTHER -> "sql"

(* A quoted run ends at the first quote whose doubling does not swallow    *)
(* it: the quotes right before it, back to the last other byte, pair up.   *)
RunStart(sql, i, k) == MinOf({j \in i + 1 .. k : \A m \in j .. k : sql[m] = "'"})
Closes(sql, i, k) ==
    /\ sql[k] = "'"
    /\ SymAt(sql, k + 1) # "'"
    /\ (k - RunStart(sql, i, k)) % 2 = 0

(* The positions a segment that starts at i can stop before.               *)
Stops(sql, i) ==
    LET past == Len(sql) + 1 IN
    CASE Opens(sql, i) = "line" -> {k \in i + 1 .. Len(sql) : sql[k] = "nl"}
      [] Opens(sql, i) = "block" -> {k \in i + 4 .. past : sql[k - 2] = "*" /\ sql[k - 1] = "/"}
      [] Opens(sql, i) = "string" -> {k \in i + 2 .. past : Closes(sql, i, k - 1)}
      [] Opens(sql, i) = "ident" -> {k \in i + 2 .. past : sql[k - 1] = "]"}
      [] OTHER -> {k \in i + 1 .. Len(sql) : Opens(sql, k) # "sql"}
TokenEnd(sql, i) == MinOf({Len(sql) + 1} \cup Stops(sql, i))

-----------------------------------------------------------------------------
(* scan_statements, breakpoint_comments, transaction_control.              *)

(* A position of the text with the kind of its segment.                    *)
KindAt(i) == (CHOOSE t \in sSegs : i \in t.from .. t.to).kind

Executable(sql) == {i \in 1 .. Len(sql) : KindAt(i) = "sql"}

Semicolons(sql) == {i \in Executable(sql) : sql[i] = ";"}

(* What makes a statement of a stretch: anything but blanks and comments.  *)
Substance(sql) ==
    {i \in 1 .. Len(sql) : \/ KindAt(i) \in {"string", "ident"}
                           \/ i \in Executable(sql) /\ sql[i] \notin {" ", "nl", ";"}}

(* The statement ranges: the stretches between semicolons with substance.  *)
Ranges(sql) ==
    LET cut == {0} \cup Semicolons(sql)
        to(c) == MinOf({Len(sql)} \cup {d \in Semicolons(sql) : d > c})
    IN {<<c + 1, to(c)>> : c \in {x \in cut : \E i \in x + 1 .. to(x) : i \in Substance(sql)}}

IsBreakpoint(sql, t) ==
    /\ t.kind = "line"
    /\ \E i \in t.from + 1 .. t.to :
           sql[i] = "bp" /\ \A j \in t.from + 1 .. t.to : j = i \/ (sql[j] = " " /\ j > i)

Breakpoints(sql) == {t \in sSegs : IsBreakpoint(sql, t)}

(* Stretches between breakpoints that are not blank (comments included).   *)
Framed(sql) ==
    LET starts == {1} \cup {t.to + 1 : t \in Breakpoints(sql)}
        to(a) == MinOf({Len(sql)} \cup {t.from - 1 : t \in {u \in Breakpoints(sql) : u.from >= a}})
    IN {a \in starts : \E i \in a .. to(a) : sql[i] \notin {" ", "nl"}}

(* Mutant: a comment before the keyword hides it.                          *)
TransactionUnlessCommented(sql) ==
    \E i \in Executable(sql) :
        /\ sql[i] = "begin"
        /\ ~(i + 1 \in Executable(sql) /\ sql[i + 1] \in {"w", "begin", "bp"})
        /\ \E c \in {0} \cup Semicolons(sql) : c < i /\ \A j \in c + 1 .. i - 1 : sql[j] \in {" ", "nl"}

(* A statement of the executable text whose first word is a transaction    *)
(* keyword with nothing of a word after it.                                *)
TransactionControl(sql) ==
    \E i \in Executable(sql) :
        /\ sql[i] = "begin"
        /\ ~(i + 1 \in Executable(sql) /\ sql[i + 1] \in {"w", "begin", "bp"})
        /\ \E c \in {0} \cup Semicolons(sql) :
               c < i /\ \A j \in c + 1 .. i - 1 : j \notin Executable(sql) \/ sql[j] \in {" ", "nl"}

(* classify_migration.                                                     *)
Classify(sql) ==
    IF TransactionControl(sql) THEN "refused"
    ELSE IF Breakpoints(sql) # {}
         THEN IF Framed(sql) = {} THEN "refused" ELSE "breakpoint-framed"
         ELSE IF Cardinality(Ranges(sql)) = 1 THEN "single-statement" ELSE "legacy"

Init == sSql = << >> /\ sAt = 1 /\ sSegs = {} /\ sPlan = "idle"

(* build_plan_bundle hashes one file's text and plans it.                  *)
Read ==
    /\ sPlan = "idle"
    /\ sSql' \in Files
    /\ sPlan' = "read"
    /\ UNCHANGED <<sAt, sSegs>>

(* One segment of tokenize_sql: a literal, a comment, or a flushed run.    *)
Tokenize ==
    /\ sPlan = "read" /\ sAt <= Len(sSql)
    /\ sSegs' = sSegs \cup {[kind |-> Opens(sSql, sAt), from |-> sAt, to |-> TokenEnd(sSql, sAt) - 1]}
    /\ sAt' = TokenEnd(sSql, sAt)
    /\ UNCHANGED <<sSql, sPlan>>

Plan ==
    /\ sPlan = "read" /\ sAt > Len(sSql)
    /\ sPlan' = Classify(sSql)
    /\ UNCHANGED <<sSql, sAt, sSegs>>

Next == Read \/ Tokenize \/ Plan

Spec == Init /\ [][Next]_vars

Bounds == MaxLen \in Nat
Kinds == {"sql", "line", "block", "string", "ident"}
Segments == [kind : Kinds, from : 1 .. MaxLen, to : 1 .. MaxLen]
TypeOK ==
    /\ sSql \in Files
    /\ sAt \in 1 .. Len(sSql) + 1
    /\ sSegs \subseteq Segments
    /\ sPlan \in {"idle", "read", "refused", "breakpoint-framed", "single-statement", "legacy"}

-----------------------------------------------------------------------------
(* The reference: SQLite's lexer as an automaton over single bytes.  Lex   *)
(* is one step of it, Lexed(sql)[i] what it is in after i symbols; a       *)
(* doubled quote leaves a string and enters it again.                      *)
Modes == {"sql", "slash", "line", "open", "block", "star", "string", "ident"}
Lex(m, c) ==
    CASE m \in {"sql", "slash"} ->
            (CASE c = "--" -> "line"
               [] c = "'" -> "string"
               [] c = "[" -> "ident"
               [] c = "/" -> "slash"
               [] c = "*" /\ m = "slash" -> "open"
               [] OTHER -> "sql")
      [] m = "line" -> IF c = "nl" THEN "sql" ELSE m
      [] m \in {"open", "block", "star"} ->
            IF c = "*" THEN "star" ELSE IF c = "/" /\ m = "star" THEN "sql" ELSE "block"
      [] m = "string" -> IF c = "'" THEN "sql" ELSE m
      [] m = "ident" -> IF c = "]" THEN "sql" ELSE m

Lexed(sql) ==
    LET mode[i \in 0 .. Len(sql)] == IF i = 0 THEN "sql" ELSE Lex(mode[i - 1], sql[i])
    IN mode

(* The bytes the reference lexes as code, the ones that open or close a    *)
(* comment or a quote excepted.                                            *)
Code == {"sql", "slash"}
CodeByLexer(sql) ==
    LET mode == Lexed(sql)
    IN {i \in 1 .. Len(sql) :
           /\ mode[i - 1] \in Code /\ mode[i] \in Code
           /\ ~(i < Len(sql) /\ mode[i + 1] = "open")}

(* tokenize_sql finds exactly the code SQLite's lexer finds, and a file    *)
(* that is planned at all opens no transaction: no statement of that code  *)
(* starts with a transaction keyword (void_migrate.rs 637: "Void owns the  *)
(* stable D1 transaction boundary").                                       *)
Visible(sql) == {i \in 1 .. Len(sql) : sql[i] \notin {" ", "nl"}}
Commented(sql, j) == {Lexed(sql)[j - 1], Lexed(sql)[j]} \cap {"line", "open", "block", "star"} # {}
FirstWord(sql, i) ==
    \E c \in {0} \cup {k \in CodeByLexer(sql) : sql[k] = ";"} :
        c < i /\ \A j \in c + 1 .. i - 1 : j \in Visible(sql) => Commented(sql, j)
PlanFollowsLexer ==
    sPlan \notin {"idle", "read"} =>
        /\ Executable(sSql) \cap Visible(sSql) = CodeByLexer(sSql) \cap Visible(sSql)
        /\ sPlan # "refused" =>
               \A i \in CodeByLexer(sSql) :
                   sSql[i] = "begin" /\ FirstWord(sSql, i) =>
                       i + 1 \in CodeByLexer(sSql) /\ sSql[i + 1] \in {"w", "begin", "bp"}

(* Why: the segments tile what has been read, the next one starts where    *)
(* the lexer is in code or at the newline that ends a comment, and in each *)
(* segment the visible bytes are code exactly if it is an sql one.         *)
Between(sql, i) ==
    i <= Len(sql) => LET m == Lexed(sql)[i - 1] IN
        m = "sql" \/ (m = "line" /\ sql[i] = "nl") \/ (m = "slash" /\ Opens(sql, i) # "sql")
ScanInv ==
    /\ \A t \in sSegs : t.from <= t.to /\ t.to < sAt
    /\ \A i \in 1 .. sAt - 1 : \E t \in sSegs : i \in t.from .. t.to
    /\ \A t, u \in sSegs, i \in 1 .. sAt - 1 : i \in t.from .. t.to /\ i \in u.from .. u.to => t = u
    /\ Between(sSql, sAt)
    /\ \A t \in sSegs, i \in Visible(sSql) :
          i \in t.from .. t.to => (t.kind = "sql" <=> i \in CodeByLexer(sSql))
    /\ sPlan = "idle" => sAt = 1
    /\ sPlan \notin {"idle", "read"} => sAt = Len(sSql) + 1
    /\ sPlan \notin {"idle", "read", "refused"} => ~TransactionControl(sSql)
=============================================================================
