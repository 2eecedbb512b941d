------------------------------ MODULE Browser ------------------------------
(***************************************************************************)
(* The browser and the HTTP request under it. A request blocks the desktop *)
(* until it ends; what happens meanwhile is up to names, connections, the  *)
(* server and the clock. An answer is one unit of header, which is a status *)
(* line and fields, and some units of body, each unit of a body carrying   *)
(* the request it answers. A server sends as much as it declares. What may *)
(* be typed or told as a location is a text with its three parts, each of  *)
(* which may be missing. Escapes, the rendering of HTML and limits on the  *)
(* length of a URL are left out.                                           *)
(***************************************************************************)
EXTENDS Naturals, Sequences, Functions

CONSTANTS
    Texts,          \* what may be typed: [scheme, site, path], a site being host and port
    Bookmarks,      \* the URLs under the address bar
    Fields,         \* the fields of a header, one list for each kind of answer
    MaxRedirects,   \* NET_HTTP_MAX_REDIRECTS
    BodyLength,     \* how long a body may be
    BodyCapacity    \* what the buffer of the caller takes

VARIABLES
    fetch,    \* the request: what for, its URL, and what has come so far
    server,   \* the answer of the server connected to
    shown     \* g_browser and the transfer buffer

browserVars == <<fetch, server, shown>>

Text(scheme, site, path) == [scheme |-> scheme, site |-> site, path |-> path]
Nothing == Text("none", "", "")
Google == Text("https", "google", "")
Search == Text("https", "google", "query")

(* browser_text_needs_search: without a scheme, a dot, a colon or a slash. *)
NeedsSearch(text) == text = Text("none", "words", "")

(* browser_normalize_url *)
Normalized(text) == IF text.scheme = "none" THEN [text EXCEPT !.scheme = "http"] ELSE text

(* transport_http_parse_url: nothing before the path, or nothing that is a *)
(* port, makes no URL.                                                     *)
Parses(url) == url.site \notin {"", "badport"}

(* transport_http_build_request: what the server is asked.                 *)
Request(url) == [site |-> url.site, path |-> IF url.path = "" THEN "/" ELSE url.path]

(* transport_http_build_redirect_url: a path is one of the same site, from *)
(* its root.                                                               *)
Target(location, url) ==
    IF location.scheme = "none" THEN Text("http", url.site, location.path) ELSE location

Header == 1

(* transport_http_parse_status_code, as far as net_http_get goes by it: a  *)
(* body is shown with any code that is no redirect.                        *)
Statuses == {"redirect", "other"}

Field(name, value) == [name |-> name, value |-> value]

(* The length of a body, in decimal: any other text is no length.          *)
Length == Text("none", "", "length")

(* transport_http_get_header_value: of fields of one name, the first; an   *)
(* empty one is like none.                                                 *)
HeaderValue(fields, name) ==
    LET named == SelectSeq(fields, LAMBDA field : field.name = name)
    IN  IF named = <<>> THEN Nothing ELSE named[1].value

(* transport_http_parse_content_length *)
Declared(answer) == HeaderValue(answer.fields, "Content-Length") = Length

Location(answer) == HeaderValue(answer.fields, "Location")

NoFetch == [what |-> "none", given |-> Nothing, url |-> Nothing, hop |-> 0, open |-> FALSE,
            taken |-> 0, body |-> <<>>, truncated |-> FALSE, late |-> FALSE]
Answers(url) ==
    [asked : {Request(url)}, status : Statuses, fields : Fields, length : BodyLength]

NoServer == [asked |-> Request(Nothing), status |-> "other", fields |-> <<>>, length |-> 0]

Page(what, body, whole) == [what |-> what, body |-> body, whole |-> whole]

BrowserInit ==
    /\ fetch = NoFetch
    /\ server = NoServer
    /\ shown = [address |-> Google, edited |-> FALSE, page |-> Page("welcome", <<>>, TRUE),
                source |-> <<>>, saved |-> Page("none", <<>>, TRUE), savedFrom |-> Nothing]

-----------------------------------------------------------------------------
(* Keys in the address bar *)
Type(text) ==
    /\ fetch.what = "none"
    /\ shown' = [shown EXCEPT !.address = text, !.edited = TRUE]
    /\ UNCHANGED <<fetch, server>>

(* browser_show_pending_site_message *)
Pending(url) ==
    shown' = [shown EXCEPT !.address = url, !.edited = FALSE,
                           !.page = Page("notice", <<>>, TRUE), !.source = <<>>]

(* A hop that goes on filling the buffer. *)
Hop_keeps(what, given, url, hop) ==
    [what |-> what, given |-> given, url |-> url, hop |-> hop, open |-> FALSE,
     taken |-> 0, body |-> fetch.body, truncated |-> FALSE, late |-> FALSE]

(* net_http_get begins: its loop clears what a redirect has brought.       *)
Hop(what, given, url, hop) ==
    [what |-> what, given |-> given, url |-> url, hop |-> hop, open |-> FALSE,
     taken |-> 0, body |-> <<>>, truncated |-> FALSE, late |-> FALSE]

(* browser_navigate_input and browser_load_url: words make a search, which *)
(* needs TLS as well.                                                      *)
Navigate(text) ==
    /\ fetch.what = "none" /\ UNCHANGED server
    /\ IF NeedsSearch(text) THEN Pending(Search) /\ UNCHANGED fetch
       ELSE IF Normalized(text).scheme = "https" \/ text.site = "google"
       THEN Pending(Normalized(text)) /\ UNCHANGED fetch
       ELSE fetch' = Hop("page", Normalized(text), Normalized(text), 0) /\ UNCHANGED shown

(* browser_download_url; words become a URL by a prefix alone.             *)
Download ==
    /\ fetch.what = "none" /\ UNCHANGED <<server, shown>>
    /\ fetch' = Hop("download", Normalized(shown.address), Normalized(shown.address), 0)

(* handle_browser_click: Go and Download, and the bookmarks. The tabs only *)
(* turn pages.                                                             *)
Click ==
    \/ Navigate(shown.address)
    \/ Download
    \/ \E bookmark \in Bookmarks \cup {Google} : Navigate(bookmark)

(* net_http_get fails; the callers show that in their own ways.            *)
Failed(body) ==
    /\ fetch' = NoFetch /\ server' = NoServer
    /\ shown' =
        IF fetch.what = "page"
        THEN [shown EXCEPT !.address = fetch.given, !.edited = FALSE,
                           !.page = Page("error", <<>>, TRUE), !.source = body]
        ELSE [shown EXCEPT !.saved = Page("error", <<>>, TRUE), !.savedFrom = fetch.given]

(* No URL, TLS, no name, no connection, or a request that was not taken:   *)
(* only the last has a connection to close.                                *)
Unreachable == fetch.what # "none" /\ ~fetch.open /\ fetch.taken = 0 /\ Failed(<<>>)

Connect ==
    /\ fetch.what # "none" /\ ~fetch.open /\ fetch.taken = 0
    /\ Parses(fetch.url) /\ fetch.url.scheme = "http"
    /\ fetch' = [fetch EXCEPT !.open = TRUE]
    /\ server' \in Answers(fetch.url)
    /\ UNCHANGED shown

-----------------------------------------------------------------------------
HeaderComplete(f) == f.taken >= Header
AllTaken == fetch.taken = Header + server.length

(* The loop over one chunk: what does not fit any more is dropped.         *)
WithChunk(n) ==
    LET after == IF HeaderComplete(fetch) THEN n ELSE n - Header
        kept == IF after < BodyCapacity - Len(fetch.body) THEN after ELSE BodyCapacity - Len(fetch.body)
    IN  [fetch EXCEPT !.taken = @ + n,
                      !.body = @ \o [k \in 1 .. kept |-> server.asked],
                      !.truncated = @ \/ kept < after]

(* net_http_get leaves its loop when the declared length is there, which   *)
(* is the length sent.                                                     *)
Enough(f) == HeaderComplete(f) /\ Declared(server) /\ Len(f.body) >= server.length

Succeeded(f) ==
    LET got == Page("body", f.body, f.taken = Header + server.length \/ f.late \/ f.truncated)
    IN  shown' = IF f.what = "page"
                 THEN [shown EXCEPT !.address = f.url, !.edited = FALSE,
                                    !.page = got, !.source = f.body]
                 ELSE [shown EXCEPT !.saved = got, !.savedFrom = f.url]

(* After the loop: close, then follow a redirect or end. A redirect fails  *)
(* after the last one allowed, or when its URL does not fit.               *)
Redirected(f) ==
    \/ Failed(f.body)
    \/ /\ f.hop < MaxRedirects
       /\ fetch' = Hop(f.what, f.given, Target(Location(server), f.url), f.hop + 1)
       /\ server' = NoServer
       /\ UNCHANGED shown

Finish(f) ==
    IF ~HeaderComplete(f) THEN Failed(<<>>)
    ELSE IF server.status = "redirect" /\ Location(server) # Nothing THEN Redirected(f)
    ELSE Succeeded(f) /\ fetch' = NoFetch /\ server' = NoServer

(* net_tcp_wait_for_data sees data, *)
Receive(n) ==
    /\ fetch.open /\ n \in 1 .. Header + server.length - fetch.taken
    /\ LET f == WithChunk(n)
       IN  IF Enough(f) THEN Finish(f) ELSE fetch' = f /\ UNCHANGED <<server, shown>>

(* the end of the stream, *)
ServerCloses == fetch.open /\ AllTaken /\ Finish(fetch)

(* or nothing until the clock runs out or the connection is reset: what    *)
(* has come of a body will do.                                             *)
WaitTimesOut ==
    /\ fetch.open
    /\ IF HeaderComplete(fetch) THEN Finish([fetch EXCEPT !.late = TRUE]) ELSE Failed(<<>>)

(* Headers that outgrow their buffer *)
HeadersTooLarge == fetch.open /\ ~HeaderComplete(fetch) /\ Failed(<<>>)

BrowserNext ==
    \/ \E text \in Texts : Type(text)
    \/ Click
    \/ Unreachable
    \/ Connect
    \/ \E n \in 1 .. Header + server.length : Receive(n)
    \/ ServerCloses
    \/ WaitTimesOut
    \/ HeadersTooLarge

-----------------------------------------------------------------------------
(* What is shown under an address is what that address answered, and all   *)
(* of it unless the buffer or the clock has cut it; the raw source is that *)
(* of the page. So through redirects, failures in the middle of one, and   *)
(* downloads in between (net_http_get, browser_load_url).                  *)
ShownIsItsAnswer ==
    /\ shown.page.what = "body" => shown.source = shown.page.body
    /\ ~shown.edited => Range(shown.page.body) \subseteq {Request(shown.address)}
    /\ Range(shown.saved.body) \subseteq {Request(shown.savedFrom)}
    /\ shown.page.whole /\ shown.saved.whole
=============================================================================
