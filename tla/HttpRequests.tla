----------------------------- MODULE HttpRequests -----------------------------
(***************************************************************************)
(* What clients of lab2's server ask for.  A path is the sequence of the   *)
(* words that the program or its README tells apart, so that a text which  *)
(* contains another is a sequence in which it is a word: "/api/check" is   *)
(* <<"/", "api", "/", "check">>, "/my404.html" is                          *)
(* <<"/", "my", "404", ".html">>, and "/api/search?id=2&name=Bar" is       *)
(* <<"/", "api", "/", "search?", "id=", "2", "&name=", "Bar">>.  A number  *)
(* or a name is a word as far as its digits or letters go; a number is     *)
(* written without leading zeros and fits an int.                          *)
(***************************************************************************)
EXTENDS Naturals, Sequences

CONSTANTS
    PathLength(_),     \* the characters of a path
    StaticFiles,       \* the paths that name a file below ./static
    Directories,       \* those that name a directory there, other than "/"
    Numbers, Names,    \* words of digits, and of letters and digits
    Types,             \* content types that requests carry
    Contents,          \* what the body of a request, or memory taken for one, may hold
    Empty,             \* the content of length zero
    Matching,          \* contents in which id=...&name=... occurs
    WellFormed,        \* those that are of this form
    WellFormedUploads, \* those that /api/upload is to accept: JSON objects, too
    Requests           \* the requests that occur

NoType == ""           \* no Content-Type and Content-Length

Root == <<"/">>
ApiPath(service) == <<"/", "api", "/", service>>
SearchPath(id, name) == <<"/", "api", "/", "search?", "id=", id, "&name=", name>>
Page(name, extension) == <<"/", name, extension>>

ASSUME PathsAssumption ==
    /\ \A path \in StaticFiles \cup Directories : path \in Seq(STRING) /\ path \notin {<<>>, Root}
    /\ {Page(name, ".html") : name \in {"index", "404", "501"}} \subseteq StaticFiles
ASSUME ContentsAssumption ==
    /\ WellFormed \subseteq Matching /\ WellFormed \subseteq WellFormedUploads
    /\ Matching \cup WellFormedUploads \subseteq Contents
    /\ Empty \in Contents /\ NoType \notin Types
ASSUME RequestsAssumption ==
    Requests \subseteq [method : STRING, path : Seq(STRING) \ {<<>>},
                        type : Types \cup {NoType}, content : Contents]
ASSUME BodiesAssumption ==      \* a body has its headers, and no GET request has one
    \A request \in Requests :
        request.content # Empty => request.type # NoType /\ request.method # "GET"

Get(path) == [method |-> "GET", path |-> path, type |-> NoType, content |-> Empty]
Post(path, type, content) ==
    [method |-> "POST", path |-> path, type |-> type, content |-> content]

Contains(path, word) == \E i \in DOMAIN path : path[i] = word

(* Neither the content of a request nor its headers contain the names of methods. *)
Mentions(request, word) == request.method = word \/ Contains(request.path, word)

(* The words of the files that are sent. *)
Static(path) == <<"./static">> \o path
Data(name, extension) == <<"./data", "/", name, extension>>
=============================================================================
