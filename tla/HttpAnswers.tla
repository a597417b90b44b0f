----------------------------- MODULE HttpAnswers -----------------------------
(***************************************************************************)
(* What get_method and post_method of lab2 answer.  An answer is the       *)
(* status, the content type, whether a file is sent, and what the body is: *)
(* the words of that file's path, of an object, or a content.  No file of  *)
(* the repository is longer than the 2048 bytes that echo_back sends.      *)
(***************************************************************************)
EXTENDS HttpRequests

id_map_name == [id \in {"1", "2", "3", "4"} |-> IF id \in {"1", "3"} THEN "Foo" ELSE "Bar"]

(* strrchr of the path finds the last dot; a word that begins with one ends the path. *)
http_get_mime_type(path) ==
    LET extension == path[Len(path)]
    IN CASE extension \in {".html", ".htm"} -> "text/html"
         [] extension \in {".jpg", ".jpeg"} -> "image/jpeg"
         [] extension = ".png" -> "image/png"
         [] extension = ".css" -> "text/css"
         [] extension = ".js" -> "text/javascript"
         [] extension = ".pdf" -> "application/pdf"
         [] extension = ".json" -> "application/json"
         [] OTHER -> "text/plain"

FromMemory(status, type, body) ==
    [status |-> status, type |-> type, file |-> FALSE, body |-> body]

(* A directory can be opened but not read. *)
echo_back(status, path) ==
    [status |-> status, type |-> http_get_mime_type(path), file |-> TRUE, body |-> path]
echo_back_directory(status, path) == [echo_back(status, path) EXCEPT !.body = <<>>]

ErrorPage == echo_back(404, Static(Page("404", ".html")))

get_status_of_the_file(path) ==
    CASE Contains(path, "404") -> 404
      [] ~Contains(path, "404") /\ Contains(path, "403") -> 403
      [] ~Contains(path, "404") /\ ~Contains(path, "403") /\ Contains(path, "501") -> 501
      [] (\A word \in {"404", "403", "501"} : ~Contains(path, word)) /\ Contains(path, "502") -> 502
      [] OTHER -> 200

(* Where the regular expression \?id=([0-9]+)&name=([A-Za-z0-9]+) matches. *)
Queries(path) ==
    {i \in DOMAIN path :
        /\ i + 4 \in DOMAIN path
        /\ path[i] \in {"search?", "?"} /\ path[i + 1] = "id=" /\ path[i + 2] \in Numbers
        /\ path[i + 3] = "&name=" /\ path[i + 4] \in Names}
FirstQuery(path) == CHOOSE i \in Queries(path) : \A j \in Queries(path) : i <= j

(* For an id of 0 the code looks before the array, where no name is. *)
search(id, name) ==
    IF id \in DOMAIN id_map_name /\ id_map_name[id] = name
    THEN FromMemory(200, "application/json", <<id, name>>)
    ELSE echo_back(404, Data("not_found", ".json"))

turn_to_api(path) ==
    CASE path = ApiPath("check") -> echo_back(200, Data("data", ".txt"))
      [] path = ApiPath("list") -> echo_back(200, Data("data", ".json"))
      [] Contains(path, "search?") /\ Queries(path) # {} ->
            search(path[FirstQuery(path) + 2], path[FirstQuery(path) + 4])
      [] OTHER -> ErrorPage

get_method(path) ==
    CASE Contains(path, "api") -> turn_to_api(path)
      [] path = Root -> echo_back(200, Static(Page("index", ".html")))
      [] path \in StaticFiles /\ ~Contains(path, "api") ->
            echo_back(get_status_of_the_file(path), Static(path))
      [] path \in Directories \ StaticFiles /\ ~Contains(path, "api") ->
            echo_back_directory(get_status_of_the_file(path), Static(path))
      [] OTHER -> ErrorPage

post_method(path, type, content) ==
    CASE path = ApiPath("echo") /\ content \in Matching -> FromMemory(200, type, <<content>>)
      [] path = ApiPath("echo") /\ content \notin Matching -> echo_back(404, Data("error", ".txt"))
      [] path = ApiPath("upload") -> FromMemory(200, "application/json", <<content>>)
      [] OTHER -> ErrorPage

-----------------------------------------------------------------------------
(* What becomes of a request: its answer, and whether it was parsed soundly, with an
   overflow of path = malloc(20), or ended the process because a header or the blank line
   that http_request_parse relies on is missing. *)
Room == 20
Outcome(fits, answer) == [parse |-> IF fits THEN "sound" ELSE "overflow", answer |-> answer]
Torn == ""             \* the method of a text of which the beginning is overwritten
Fatal == [parse |-> "fatal", answer |-> ErrorPage]

(* get_method copies "./static" and the path over it, unless it is for turn_to_api. *)
ByGet(path) ==
    Outcome(PathLength(path) + (IF Contains(path, "api") THEN 0 ELSE 8) < Room, get_method(path))
ByPost(path, type, content) ==
    Outcome(PathLength(path) < Room, post_method(path, type, content))

(* The loop of server: request_arr has the texts of the requests without their blank lines.
   One that does not contain GET must have the headers of a POST, and no content. *)
AllButLast(requests) ==                                                   \* mutant
    [i \in 1..(Len(requests) - 1) |-> ByGet(requests[i].path)]
LastFirst(requests) ==                                                    \* mutant
    [i \in DOMAIN requests |-> ByGet(requests[Len(requests) + 1 - i].path)]
OneByOne(requests) ==
    [i \in DOMAIN requests |->
        LET request == requests[i]
        IN IF Mentions(request, "GET") \/ (request.type # NoType /\ request.content = Empty)
           THEN ByGet(request.path) ELSE Fatal]

(* strstr also reads what an earlier POST left behind the end of the read: seen are the
   requests, or the rest of one, of which it finds anything there. *)
TextsOf(requests) == {requests[i] : i \in DOMAIN requests}
Mentioned(texts, word) == \E text \in texts : Mentions(text, word)
ParsedAsOne(requests, seen) == Mentioned(TextsOf(requests) \cup seen, "POST")

(* The POST branch of server: the whole buffer is parsed as one request, with the path of the
   first.  Its content is what the memory holds when GET occurs in the buffer; when only
   the first has no headers, those that are found come later. *)
AsOne(requests, seen) ==
    LET first == Head(requests)
        texts == TextsOf(requests) \cup seen
        somehow == IF first.path \in {ApiPath("echo"), ApiPath("upload")}
                   THEN {Fatal} \cup {ByPost(first.path, type, content) :
                                         type \in Types, content \in Contents}
                   ELSE {Outcome(PathLength(first.path) < Room, ErrorPage)}
    IN CASE Mentioned(texts, "GET") -> somehow
         [] ~Mentioned(texts, "GET") /\ first.type # NoType ->
               {ByPost(first.path, first.type, first.content)}
         [] ~Mentioned(texts, "GET") /\ first.type = NoType ->
               {Fatal} \cup (IF \E text \in texts : text.type # NoType THEN somehow ELSE {})

(* What an earlier text, or the end of one, may be parsed as; bound: one of them. *)
Stale(seen) ==
    {Fatal, Outcome(TRUE, ErrorPage), Outcome(FALSE, ErrorPage)} \cup
    {ByGet(text.path) : text \in {r \in seen : r.method # Torn}}

(* What server makes of a read, one outcome after the other. *)
Pending(requests, seen) ==
    CASE requests = <<>> -> {<<>>} \cup (IF seen = {} THEN {} ELSE {<<o>> : o \in Stale(seen)})
      [] requests # <<>> /\ ParsedAsOne(requests, seen) -> {<<o>> : o \in AsOne(requests, seen)}
      [] OTHER ->
            IF seen = {} THEN {OneByOne(requests)}
            ELSE {Append(OneByOne(requests), o) : o \in Stale(seen)}

(* The POST branch does not clear the buffer, of which the next read overwrites the
   beginning; the other branch clears it. *)
Texts == Requests \cup {[request EXCEPT !.method = Torn] : request \in Requests}
Kept(requests, seen, buffer) ==
    CASE ~ParsedAsOne(requests, seen) -> {}
      [] ParsedAsOne(requests, seen) /\ requests = <<>> -> buffer
      [] OTHER -> buffer \cup TextsOf(Tail(requests)) \cup {[Head(requests) EXCEPT !.method = Torn]}

Answers ==
    {get_method(request.path) : request \in Requests} \cup {ErrorPage} \cup
    {post_method(path, type, content) :
        path \in {ApiPath("echo"), ApiPath("upload")}, type \in Types, content \in Contents}
Outcomes == [parse : {"sound", "overflow", "fatal"}, answer : Answers]
=============================================================================
