------------------------------ MODULE UriPath ------------------------------
(***************************************************************************)
(* From the URI of a request to a file: mg_normalize_uri_path takes "."    *)
(* and ".." out of it, writing over the URI it reads, and                  *)
(* mg_uri_to_local_path turns what is left into a path below the document  *)
(* root, one component after the other, decoding each where it will stand. *)
(*                                                                         *)
(* A character is a letter, "/", ".", one that is percent-encoded ("%2e",  *)
(* "%2f", "%00"), or a percent sign that begins no encoding ("%").         *)
(* Positions count from 1: u is the code's pointer u, and the end of the   *)
(* URI is Len + 1.  webserver.c sets no rewrites and one document root,    *)
(* and the local path is what comes after it.                              *)
(***************************************************************************)
EXTENDS Integers, Sequences
LOCAL INSTANCE SequencesExt
LOCAL INSTANCE FiniteSetsExt

CONSTANTS
    Letters,        \* characters that mean nothing here
    Components,     \* what stands between the slashes of a URI
    MaxComponents,  \* bound: components of a URI
    Folders, Files  \* local paths in the document root

(* "nul" comes of decoding alone. *)
Characters == Letters \cup {"/", ".", "%", "%2e", "%2f", "%00", "nul"}

ASSUME ComponentsAssumption ==
    Components \subseteq Seq(Characters \ {"/"}) /\ MaxComponents \in Nat

VARIABLES
    request,    \* history: the components of the URI that was asked for
    uri,        \* hm->uri, rewritten in place up to out
    step,       \* "normalize", "walk", "found", "notFound" (404) or "bad" (400)
    next,       \* the first character not looked at: s, then u
    out,        \* characters of the normalized URI: d - cp
    path,       \* lp up to p
    exists,     \* every path looked up so far is there
    rest        \* remainder, what follows a file: path_info

uriVars == <<request, uri, step, next, out, path, exists, rest>>

WithText(text, c) == text \o (<<"/">> \o c)
Text(comps) ==
    LET upto[n \in 0 .. Len(comps)] ==
            IF n = 0 THEN <<>> ELSE WithText(upto[n - 1], comps[n])
    IN  upto[Len(comps)]
Requests == UNION {[1 .. n -> Components] : n \in 1 .. MaxComponents}

UriInit ==
    /\ request \in Requests \cup {<<>>}
    /\ uri = IF request = <<>> THEN <<"a">> ELSE Text(request)
    /\ step = "normalize" /\ next = 1 /\ out = 0
    /\ path = <<>> /\ exists = TRUE /\ rest = <<>>

-----------------------------------------------------------------------------
(* parse_uri_component, from a position to the next slash: the position of *)
(* that slash, or the end.                                                 *)
SlashFrom(s) == Min({i \in s .. Len(uri) : uri[i] = "/"} \cup {Len(uri) + 1})
ComponentFrom(s) == SubSeq(uri, s, SlashFrom(s) - 1)
AfterSlash(s) == Min({SlashFrom(s) + 1, Len(uri) + 1})

(* Back over the slash the output ends with, if it is not the first, to    *)
(* the one before.                                                         *)
BackOntoSlash(d) ==     \* mutant: the slash at the end is not stepped over
    Max({i \in 1 .. d : uri[i] = "/"} \cup {0})
Back(d) ==
    LET end == IF d > 1 /\ uri[d] = "/" THEN d - 1 ELSE d
    IN Max({i \in 1 .. end : uri[i] = "/"} \cup {0})

(* mg_normalize_uri_path refuses a URI that does not begin with a slash.   *)
Refuse ==
    /\ step = "normalize" /\ uri[1] # "/"
    /\ step' = "bad"
    /\ UNCHANGED <<request, uri, next, out, path, exists, rest>>

(* One component, with the slash behind it, is dropped, takes one back, or *)
(* is moved up.                                                            *)
NormalizeComponent ==
    LET c == ComponentFrom(next)
        n == AfterSlash(next) - next
    IN /\ step = "normalize" /\ uri[1] = "/" /\ next <= Len(uri)
       /\ next' = AfterSlash(next)
       /\ IF c = <<".">> THEN UNCHANGED <<uri, out>>
          ELSE IF c = <<".", ".">> THEN out' = Back(out) /\ UNCHANGED uri
          ELSE /\ uri' = [i \in DOMAIN uri |-> IF i \in out + 1 .. out + n
                                               THEN uri[next + i - out - 1] ELSE uri[i]]
               /\ out' = out + n
       /\ UNCHANGED <<request, step, path, exists, rest>>

Normalized ==
    /\ step = "normalize" /\ uri[1] = "/" /\ next > Len(uri)
    /\ uri' = IF out = 0 THEN <<"/">> ELSE SubSeq(uri, 1, out)
    /\ step' = "walk" /\ next' = 2
    /\ UNCHANGED <<request, out, path, exists, rest>>

-----------------------------------------------------------------------------
Encoded == [c \in {"%2e", "%2f", "%00"} |->
                CASE c = "%2e" -> "." [] c = "%2f" -> "/" [] c = "%00" -> "nul"]
(* mg_url_decode; <<>> is its failure.                                     *)
Decode(c) ==
    IF "%" \in ToSet(c) THEN <<>>
    ELSE [i \in DOMAIN c |-> IF c[i] \in DOMAIN Encoded THEN Encoded[c[i]] ELSE c[i]]

Parent(p) == SubSeq(p, 1, Max({i \in DOMAIN p : p[i] = "/"} \cup {1}) - 1)

(* The path so far names a file: what follows is the rest, with its slash. *)
Terminal ==
    /\ step = "walk" /\ exists /\ path \in Files
    /\ step' = "found"
    /\ rest' = SubSeq(uri, IF uri[next - 1] = "/" THEN next - 1 ELSE next, Len(uri))
    /\ UNCHANGED <<request, uri, next, out, path, exists>>

WholeUri ==
    /\ step = "walk" /\ ~(exists /\ path \in Files) /\ next > Len(uri)
    /\ exists' = (exists /\ path \in Folders)
    /\ step' = "found"
    /\ UNCHANGED <<request, uri, next, out, path, rest>>

(* One component is decoded behind the path, and then is the next name of  *)
(* it, takes one back, or ends the search; an empty one is skipped.        *)
WalkComponent ==
    LET c == ComponentFrom(next)
        name == Decode(c)
    IN /\ step = "walk" /\ ~(exists /\ path \in Files) /\ next <= Len(uri)
       /\ exists' = (exists /\ path \in Folders)
       /\ IF c # <<>> /\ (name = <<>> \/ {"nul", "/"} \cap ToSet(name) # {})
          THEN step' = "notFound" /\ UNCHANGED <<next, path>>
          ELSE /\ next' = AfterSlash(next)
               /\ path' = IF c = <<>> \/ name = <<".">> THEN path
                          ELSE IF name = <<".", ".">> THEN Parent(path)
                          ELSE path \o <<"/">> \o name
               /\ UNCHANGED step
       /\ UNCHANGED <<request, uri, out, rest>>

UriNext ==
    \/ Refuse \/ NormalizeComponent \/ Normalized
    \/ WalkComponent \/ Terminal \/ WholeUri

UriSpec == UriInit /\ [][UriNext]_uriVars

-----------------------------------------------------------------------------
(* What is meant, by component instead of by character                     *)

Dots == {<<".">>, <<".", ".">>}
ButLast(s) == SubSeq(s, 1, Len(s) - 1)

(* The dots that are written out, resolved as RFC 3986 (5.2.4) does.       *)
WithComponent(done, c) ==
    IF c = <<".">> THEN done
    ELSE IF c = <<".", ".">> THEN ButLast(done)
    ELSE Append(done, c)
Kept(comps) ==
    LET upto[n \in 0 .. Len(comps)] ==
            IF n = 0 THEN <<>> ELSE WithComponent(upto[n - 1], comps[n])
    IN  upto[Len(comps)]
Resolved ==
    IF Last(request) \in Dots THEN Append(Kept(request), <<>>) ELSE Kept(request)

(* The names that comps lead to from the root, encoded dots among them.    *)
WithName(done, c) ==
    IF c = <<>> \/ Decode(c) = <<".">> THEN done
    ELSE IF Decode(c) = <<".", ".">> THEN ButLast(done)
    ELSE Append(done, Decode(c))
Names(comps) ==
    LET upto[n \in 0 .. Len(comps)] ==
            IF n = 0 THEN <<>> ELSE WithName(upto[n - 1], comps[n])
    IN  upto[Len(comps)]
PathTo(comps) == Text(Names(comps))

Legal(c) == c = <<>> \/ (Decode(c) # <<>> /\ {"nul", "/"} \cap ToSet(Decode(c)) = {})

(* The search ends at the first file that is reached by way of folders.    *)
Stop ==
    LET at(i) == PathTo(SubSeq(Resolved, 1, i))
        n == Len(Resolved)
    IN Min({n} \cup {i \in 0 .. n : at(i) \in Files
                                    /\ \A j \in 0 .. i - 1 : at(j) \in Folders})

(* A URI leads to the file or folder its components name, with what stands *)
(* behind a file as the rest, whatever dots, encoded dots and empty        *)
(* components are in it; and it leads nowhere exactly if a component that  *)
(* matters cannot be a name.  Writing over the URI loses nothing.          *)
PathExact ==
    /\ step = "walk" /\ next = 2 => uri = Text(Resolved)
    /\ step = "found" =>
         /\ path = PathTo(SubSeq(Resolved, 1, Stop))
         /\ rest = Text(SubSeq(Resolved, Stop + 1, Len(Resolved)))
    /\ step = "notFound" => \E i \in 1 .. Stop : ~Legal(Resolved[i])
    /\ step = "found" => \A i \in 1 .. Stop : Legal(Resolved[i])
    /\ step = "bad" => request = <<>>
=============================================================================
