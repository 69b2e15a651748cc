----------------------------- MODULE WebClient -----------------------------
(***************************************************************************)
(* Anul II/Semestrul II/PCOM/Tema 4/client.c: a client that reads commands *)
(* and sends each to a library on the web as one request on a connection   *)
(* of its own.  It keeps the cookie of its session and the token that      *)
(* opens the library.  The server is not in the repository: it may refuse  *)
(* a request, forget a session, or close the connection at any time.       *)
(*                                                                         *)
(* A response is a header, which a terminator ends, and a body.  It comes  *)
(* in pieces of any size, in units that stand for some bytes.  The cookie  *)
(* is in the header, all other text the client looks for in the body.      *)
(***************************************************************************)
EXTENDS Integers

CONSTANTS
  Sessions,   \* bound on the sessions: 1 .. n
  Limit,      \* descriptors a process may have open
  HEADER_TERMINATOR_SIZE,
  MaxHeader,  \* bounds on header, with its terminator, and body
  MaxBody,
  SIZE_MAX    \* the largest size_t

None == 0
Garbage == -1
Commands == {"register", "login", "logout", "enter_library", "get_books", "get_book",
             "add_book", "delete_book"}
Library == {"get_books", "get_book", "add_book", "delete_book"}
Checked == Commands \ {"logout", "enter_library", "get_books"} \* input may be refused

(* announced: the header has a Content-Length.                             *)
Responses ==
  [header : HEADER_TERMINATOR_SIZE + 1 .. MaxHeader, body : 0 .. MaxBody, announced : BOOLEAN]
Size(r) == r.header + r.body

VARIABLES
  at,          \* "prompt", in a loop ("header", "body"), "handle", "undefined",
               \* or over: "ended", or "failed" with the network
  command,
  answer,      \* what the server decided: "ok", "empty" (no books) or "error"
  response,
  size, total, \* of the buffer, and what it should become
  closed,      \* the server closed
  logged_in, library, cookie, token,
  session,     \* the session the server knows, and the latest there was
  latest,
  open         \* descriptors

memory == <<logged_in, library, cookie, token>>
served == <<answer, response, session, latest>>
clientVars == <<at, command, served, size, total, closed, memory, open>>

ClientInit ==
  /\ at = "prompt" /\ command = "register" /\ answer = "ok"
  /\ response = [header |-> HEADER_TERMINATOR_SIZE + 1, body |-> 0, announced |-> FALSE]
  /\ size = 0 /\ total = 0 /\ closed = FALSE
  /\ logged_in = FALSE /\ library = FALSE /\ cookie = None /\ token = None
  /\ session = None /\ latest = 0
  /\ open = 3

(* The commands the client sends no request for, in its present state.     *)
Refused(c) ==
  \/ c = "login" /\ logged_in
  \/ c \in {"logout", "enter_library"} /\ ~logged_in
  \/ c \in Library /\ ~library

(* A command opens a connection before it is looked at, and a request one  *)
(* more; no connection is closed.  With none left the program exits, and   *)
(* so it does when the network fails it.  Input of a wrong format ends the *)
(* command without a request.                                              *)
Type(c) ==
  /\ at = "prompt" /\ command' = c
  /\ \E valid, fails \in BOOLEAN :
       LET opens == IF valid /\ ~Refused(c) THEN 2 ELSE 1
       IN /\ valid \/ c \in Checked
          /\ open' = open + opens
          /\ at' = IF open + opens > Limit THEN "ended"
                   ELSE IF fails THEN "failed"
                   ELSE IF opens = 2 THEN "header" ELSE "prompt"
  /\ size' = 0 /\ total' = 0 /\ closed' = FALSE
  /\ UNCHANGED <<memory, served>>

Exit ==
  /\ at = "prompt" /\ at' = "ended"
  /\ UNCHANGED <<command, memory, served, size, total, closed, open>>

(* The server, on a request: what it needs is the session of the cookie.   *)
Serve(c) ==
  CASE c = "register" -> UNCHANGED <<session, latest>> /\ answer' \in {"ok", "error"}
    [] c = "login" ->
         \/ answer' = "error" /\ UNCHANGED <<session, latest>>
         \/ latest < Sessions /\ answer' = "ok" /\ latest' = latest + 1 /\ session' = latest + 1
    [] c = "logout" ->
         /\ answer' = (IF session = cookie THEN "ok" ELSE "error")
         /\ session' = None /\ UNCHANGED latest
    [] c = "enter_library" ->
         answer' = (IF session = cookie THEN "ok" ELSE "error") /\ UNCHANGED <<session, latest>>
    [] OTHER ->
         /\ answer' \in IF session = cookie /\ token = cookie
                        THEN {"ok", "error"} \cup (IF c = "get_books" THEN {"empty"} ELSE {})
                        ELSE {"error"}
         /\ UNCHANGED <<session, latest>>

(* What it sends: an error, a token and books are text.                    *)
Respond(c) ==
  /\ Serve(c)
  /\ response' \in {r \in Responses :
                      answer' = "error" \/ c \in {"enter_library", "get_books", "get_book"}
                        => r.body > 0}
---------------------------------------------------------------------------
(* receive_from_server.                                                    *)

(* buffer_find: the place of the terminator among the n units received.    *)
buffer_find(r, n) == IF n >= r.header THEN r.header - HEADER_TERMINATOR_SIZE ELSE -1

(* header_end, after a piece.  Mutant: its terminator is not counted.      *)
EndBefore(r, n) == buffer_find(r, n)
header_end(r, n) ==
  IF buffer_find(r, n) >= 0 THEN buffer_find(r, n) + HEADER_TERMINATOR_SIZE ELSE -1

size_t(n) == IF n < 0 THEN n + SIZE_MAX + 1 ELSE n

(* The second loop, from its test on.                                      *)
ReadUpTo(n) == total' = n /\ at' = IF size' < n THEN "body" ELSE "handle"

(* A piece: the server decides before the first.  The first loop is left   *)
(* when the header has come and says how much follows.                     *)
ReadPiece ==
  /\ at \in {"header", "body"} /\ ~closed
  /\ IF size = 0 THEN Respond(command) ELSE size < Size(response) /\ UNCHANGED served
  /\ size' \in size + 1 .. Size(response')
  /\ IF at = "body" THEN ReadUpTo(total)
     ELSE IF header_end(response', size') >= 0 /\ response'.announced
     THEN ReadUpTo(size_t(response'.body + header_end(response', size')))
     ELSE UNCHANGED <<at, total>>
  /\ UNCHANGED <<command, closed, memory, open>>

(* read returns 0: the first loop goes on to the test of the second, which *)
(* a header without an end makes read again.                               *)
ReadEnd ==
  /\ at \in {"header", "body"} /\ closed
  /\ UNCHANGED <<command, served, size, closed, memory, open>>
  /\ IF at = "body" THEN at' = "handle" /\ UNCHANGED total
     ELSE ReadUpTo(size_t(IF size = 0 THEN 0 ELSE header_end(response, size)))

ReadFails ==
  /\ at \in {"header", "body"} /\ at' = "failed"
  /\ UNCHANGED <<command, served, size, total, closed, memory, open>>

(* The connection ends: early, before or after the request was served, or  *)
(* after the response.                                                     *)
Close ==
  /\ at \in {"header", "body"} /\ ~closed
  /\ closed' = TRUE
  /\ \/ size = 0 /\ Respond(command)
     \/ UNCHANGED served
  /\ UNCHANGED <<at, command, size, total, memory, open>>

Expire ==
  /\ session # None /\ session' = None
  /\ UNCHANGED <<at, command, answer, response, size, total, closed, memory, latest, open>>
---------------------------------------------------------------------------
(* strstr for a text that is somewhere in a part of the response: found,   *)
(* not found, or either when only some of that part has come.              *)
Search(from, to) == {size > from, size >= to}
InHeader == Search(0, response.header)
InBody == Search(response.header, Size(response))

(* A value that is cut from the text found, less of it perhaps.            *)
Cut(whole, part) == {IF all THEN whole ELSE Garbage : all \in part}

Login ==
  /\ command = "login"
  /\ \/ answer = "error" /\ TRUE \in InBody /\ at' = "prompt" /\ UNCHANGED memory
     \/ answer = "ok" /\ TRUE \in InHeader
        /\ cookie' \in Cut(latest, InHeader) /\ logged_in' = TRUE
        /\ at' = "prompt" /\ UNCHANGED <<library, token>>
     \/ FALSE \in (IF answer = "ok" THEN InHeader ELSE InBody) \* no error, no cookie
        /\ at' = "undefined" /\ UNCHANGED memory

(* Mutant: the library stays open.                                         *)
LogoutOnly ==
  /\ command = "logout"
  /\ cookie' = None /\ logged_in' = FALSE
  /\ at' = "prompt" /\ UNCHANGED <<library, token>>

Logout ==
  /\ command = "logout"
  /\ cookie' = None /\ logged_in' = FALSE /\ library' = FALSE
  /\ at' = "prompt" /\ UNCHANGED token

(* The token is cut from whatever the body is, an error included.          *)
EnterLibrary ==
  /\ command = "enter_library"
  /\ \/ /\ TRUE \in InBody
        /\ token' \in Cut(IF answer = "ok" THEN cookie ELSE Garbage, InBody)
        /\ library' = TRUE
        /\ at' = "prompt" /\ UNCHANGED <<logged_in, cookie>>
     \/ FALSE \in InBody /\ at' = "undefined" /\ UNCHANGED memory

(* The other commands print a line, or the JSON in the body: printing from *)
(* where there is none is undefined.                                       *)
Shows(found) ==
  \E text \in found : at' = (IF text THEN "prompt" ELSE "undefined") /\ UNCHANGED memory

Register == command = "register" /\ Shows({TRUE})
GetBooks == command = "get_books" /\ Shows(IF answer = "ok" THEN InBody ELSE {FALSE})
GetBook == command = "get_book" /\ Shows(InBody)
AddBook == command = "add_book" /\ Shows({TRUE})
DeleteBook == command = "delete_book" /\ Shows({TRUE})

Handle ==
  /\ at = "handle"
  /\ \/ Register \/ Login \/ Logout \/ EnterLibrary
     \/ GetBooks \/ GetBook \/ AddBook \/ DeleteBook
  /\ UNCHANGED <<command, served, size, total, closed, open>>

ClientNext ==
  \/ \E c \in Commands : Type(c)
  \/ Exit \/ ReadPiece \/ ReadEnd \/ ReadFails \/ Close \/ Expire \/ Handle

ClientSpec == ClientInit /\ [][ClientNext]_clientVars
---------------------------------------------------------------------------
(* With the library open the client is logged in, and the token it sends   *)
(* was given in the session whose cookie it sends, whatever sessions there *)
(* were before, or is no token at all.                                     *)
OwnToken ==
  library => logged_in /\ cookie # None /\ token \in {cookie, Garbage}

(* In whatever pieces a response comes, with or without a Content-Length,  *)
(* it is handled when all of it has come, unless the server closed before, *)
(* and no more of it is waited for then, if it was announced; so that the  *)
(* client misses no text it looks for but the list of books it was refused *)
(* or that is empty.                                                       *)
PiecesDoNotMatter ==
  LET whole == size = Size(response)
      read == at \in {"handle", "undefined"}
  IN /\ read => whole \/ closed
     /\ at \in {"header", "body"} /\ response.announced => ~whole \/ closed
     /\ at = "undefined" /\ whole => command = "get_books" /\ answer # "ok"

(* "User has successfully entered the library!": the server let it in.     *)
EnteredMeansAccess ==
  [][ Handle /\ command = "enter_library" /\ library' => answer = "ok" ]_clientVars

(* The client ends on the command exit only.                               *)
EndsOnExit == [][ at # "ended" /\ at' = "ended" => Exit ]_clientVars
=============================================================================
