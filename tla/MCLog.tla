--------------------------------- MODULE MCLog ---------------------------------
(* Values of Log's constants for TLC. *)
EXTENDS Log, TLC

CONSTANTS root, sys, f0, f1, bad

TwoNames == {root, sys}
TwoPatterns == {f0, f1}

\* An item with a format, one after a text, and one of a name that nothing is registered for.
Patterns == (f0 :> <<"%", "d", "{", "%", "m", "}">>) @@ (f1 :> <<"-", "%", "m">>)
            @@ (bad :> <<"%", "q", "-">>)
Letters    == {"m", "d", "q"}
Dashes     == {"-"}
NamesKnown == {<<"m">>, <<"d">>}

LogFile(level, f) == [type |-> "FileLogAppender", file |-> "sys.txt", level |-> level, formatter |-> f]
Stdout           == [type |-> "StdoutLogAppender"]
Logger(n, level, as) == [name |-> n, level |-> level, appenders |-> as]

\* Two appenders, one of them with a formatter, after two that are not usable.
First  == Logger(sys, "info", <<[type |-> "SyslogAppender"], [type |-> "FileLogAppender"],
                               LogFile("error", f1), Stdout>>)
\* Another formatter; one that does not parse for an appender.
Second == [name |-> sys, level |-> "info", formatter |-> f1, appenders |-> <<LogFile("warn", bad)>>]
\* As First, but for the appenders.
Third  == Logger(sys, "info", <<Stdout>>)
Main   == Logger(root, "ERROR", <<Stdout>>)

Nameless == [level |-> "info"]

Texts == {<<>>, <<First, Second>>, <<Second, Main>>, <<Third, Main>>, <<Main, Nameless>>}
=============================================================================
