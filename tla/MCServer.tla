------------------------------ MODULE MCServer ------------------------------
(* Instances of Server for TLC. *)
EXTENDS Server

MCOwners == [k |-> "bob"]
MCSessionOf == [s |-> "ann"]
MCServed == {<<"postgres", FALSE>>}
MCOverrides == (<<FALSE, "sign_in">> :> 1)

\* A sign-in of the page at home, through the router.
SignIn == [Blank EXCEPT !.via = "axum", !.method = "POST", !.path = "sign_in",
                        !.fetch = "same_site", !.origin = "home"]
\* A change of a username, by a session or an API key.
Change == [Blank EXCEPT !.method = "POST", !.path = "update_user", !.based = TRUE,
                        !.origin = "home", !.cookie = "s", !.name = "n"]
ByKey == [Change EXCEPT !.key = "k"]
App == [Blank EXCEPT !.via = "app", !.cookie = "s"]

\* One request of every kind the checks tell apart.
Kinds ==
    {SignIn, Change, ByKey, App,
     [SignIn EXCEPT !.fetch = "cross_site"], [SignIn EXCEPT !.origin = "foreign"],
     [SignIn EXCEPT !.via = "call", !.based = TRUE, !.fetch = "cross_site"],
     [SignIn EXCEPT !.fetch = "none", !.target = FALSE],
     [SignIn EXCEPT !.large = TRUE], [SignIn EXCEPT !.via = "call", !.large = TRUE],
     [SignIn EXCEPT !.method = "OPTIONS"],
     [SignIn EXCEPT !.via = "call", !.method = "OPTIONS", !.origin = "page"],
     [Change EXCEPT !.origin = "page"], [Change EXCEPT !.origin = "null"],
     [Change EXCEPT !.origin = None, !.referer = "home"],
     [Change EXCEPT !.cookie = None], [ByKey EXCEPT !.name = None],
     [ByKey EXCEPT !.name = None, !.more = TRUE],
     [ByKey EXCEPT !.key = "bad", !.cookie = None, !.origin = "page"],
     [ByKey EXCEPT !.method = "GET", !.path = "get_session", !.via = "axum"],
     [Change EXCEPT !.path = "off"], [Change EXCEPT !.path = "off", !.via = "axum"],
     [Blank EXCEPT !.path = "ok", !.via = "axum"], [Blank EXCEPT !.origin = "page"],
     [App EXCEPT !.cookie = None],
     [App EXCEPT !.method = "POST", !.origin = "page", !.key = "k"]}

\* Requests that meet at the rate limiter or at the username, and one of any kind.
MCOffers ==
    [r \in Requests |-> CASE r = 1 -> {SignIn, Change}
                          [] r = 3 -> Kinds
                          [] OTHER -> {SignIn}]
MCApp == [r \in Requests |-> {App}]

=============================================================================
