---------------------------- MODULE HttpDocumented ----------------------------
(***************************************************************************)
(* The tables of section 3.7 of lab2's README, "Access Your HTTP Server":  *)
(* what the server is to answer, whatever the code does.                   *)
(***************************************************************************)
EXTENDS HttpRequests

WithFile(status, type, path) == [status |-> status, type |-> type, file |-> TRUE, body |-> path]
WithData(type, data) == [status |-> 200, type |-> type, file |-> FALSE, body |-> data]

StaticPage(status, name) == WithFile(status, "text/html", Static(Page(name, ".html")))
NotFoundPage == StaticPage(404, "404")

(* The types of the files [/*]/*.html and so on. *)
TypeOf ==
    [extension \in {".html", ".js", ".css", ".json"} |->
        CASE extension = ".html" -> "text/html"
          [] extension = ".js" -> "text/javascript"
          [] extension = ".css" -> "text/css"
          [] extension = ".json" -> "application/json"]
Extension(path) == path[Len(path)]

(* The objects of data.json. *)
Objects == {<<"1", "Foo">>, <<"2", "Bar">>, <<"3", "Foo">>, <<"4", "Bar">>}
IsSearch(path) == Len(path) = 8 /\ path = SearchPath(path[6], path[8])
                    /\ path[6] \in Numbers /\ path[8] \in Names

OwnPages == {Root} \cup {Page(name, ".html") : name \in {"index", "404", "501"}}

DocumentedGet(path) ==
    CASE path \in {Root, Page("index", ".html")} -> StaticPage(200, "index")
      [] path = Page("404", ".html") -> NotFoundPage
      [] path = Page("501", ".html") -> StaticPage(501, "501")
      [] path \in StaticFiles \ OwnPages /\ Extension(path) \in DOMAIN TypeOf ->
            WithFile(200, TypeOf[Extension(path)], Static(path))
      [] path = ApiPath("check") -> WithFile(200, "text/plain", Data("data", ".txt"))
      [] path = ApiPath("list") -> WithFile(200, "application/json", Data("data", ".json"))
      [] IsSearch(path) ->
            IF <<path[6], path[8]>> \in Objects
            THEN WithData("application/json", <<path[6], path[8]>>)
            ELSE WithFile(404, "application/json", Data("not_found", ".json"))
      [] OTHER -> NotFoundPage

Form == "application/x-www-form-urlencoded"

DocumentedPost(path, content) ==
    CASE path = ApiPath("echo") /\ content \in WellFormed -> WithData(Form, <<content>>)
      [] path = ApiPath("echo") /\ content \notin WellFormed ->
            WithFile(404, "text/plain", Data("error", ".txt"))
      [] path = ApiPath("upload") /\ content \in WellFormedUploads ->
            WithData("application/json", <<content>>)
      [] path = ApiPath("upload") /\ content \notin WellFormedUploads ->
            WithFile(404, "application/json", Data("error", ".json"))
      [] OTHER -> NotFoundPage

Documented(request) ==
    CASE request.method = "GET" -> DocumentedGet(request.path)
      [] request.method = "POST" -> DocumentedPost(request.path, request.content)
      [] OTHER -> StaticPage(501, "501")
=============================================================================
