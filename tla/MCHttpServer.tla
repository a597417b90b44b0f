---------------------------- MODULE MCHttpServer ----------------------------
(* Three clients, of which one never sends anything.  The others have two GET requests and a
   POST; or a POST and a GET of a page that the README has served otherwise; or a POST mixed
   with a GET, and a DELETE. *)
EXTENDS HttpServer, TLC

CONSTANTS c1, c2, c3, empty, form, loose, text

ThreeClients == {c1, c2, c3}
Files == {Page(name, ".html") : name \in {"index", "404", "501", "403"}}
            \cup {Page("styles", ".css"), Page("hello-world", ".txt")}
OneDirectory == {<<"/", "test">>}
TwoNumbers == {"2", "3"}
TwoNames == {"Foo", "Bar"}
TwoTypes == {Form, "application/json"}
FourContents == {empty, form, loose, text}
FormAndLoose == {form, loose}
OnlyForm == {form}

Characters(path) ==
    LET upTo[i \in 0..Len(path)] == IF i = 0 THEN 0 ELSE upTo[i - 1] + Len(path[i])
    IN upTo[Len(path)]

PlanOf(first, second, third) ==
    (c1 :> first) @@ (c2 :> second) @@ (c3 :> third)

ThreePlans ==
    {PlanOf(<<Get(Page("501", ".html")), Get(SearchPath("2", "Bar"))>>,
            <<>>,
            <<Post(ApiPath("upload"), "application/json", form)>>),
     PlanOf(<<Post(ApiPath("echo"), Form, text)>>,
            <<>>,
            <<Get(Page("403", ".html"))>>),
     PlanOf(<<Post(ApiPath("upload"), "application/json", form), Get(ApiPath("check"))>>,
            <<>>,
            <<[Get(Root) EXCEPT !.method = "DELETE"]>>)}

TheirRequests ==
    UNION {{p[c][i] : i \in DOMAIN p[c]} : <<c, p>> \in ThreeClients \X ThreePlans}
=============================================================================
