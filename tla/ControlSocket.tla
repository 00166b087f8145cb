---------------------------- MODULE ControlSocket ----------------------------
(***************************************************************************)
(* The control socket: clients ask a mount to encrypt or decrypt a path.   *)
(* A client keeps its connection for many queries; a query that times out  *)
(* returns an error and leaves the connection open (Query).  The server    *)
(* has one goroutine per connection (handleConnection), which walks the    *)
(* backing directories level by level while other threads rename in them.  *)
(*                                                                         *)
(* A connection is two byte streams.  A stream is a sequence of units: a   *)
(* part of a plaintext path takes one, a part of a ciphertext path two.    *)
(***************************************************************************)
EXTENDS Naturals, SequencesExt

CONSTANTS Clients, Dirs, Root, Files, Names, LongNames, None,
          Requests,        \* what clients ask: [enc |-> path, dec |-> path]
          Buf,             \* ReadBufSize, and the 5000 bytes of Query
          MaxQueries,      \* bound: queries per client
          MaxMoves         \* bound: renames

VARIABLES plaintextnames,
          ent,             \* dir -> name -> file, dir or None
          moves,
          open,            \* c -> the server has not closed the connection
          c2s, s2c,        \* c -> the units on their way
          srv,             \* c -> the state of handleConnection
          cl,              \* c -> the client's state
          asked,           \* ghost: c -> its queries so far
          got              \* c -> what the last query returned, or None
client == << cl, asked, got >>
vars == << plaintextnames, ent, moves, open, c2s, s2c, srv, client >>

(* Path segments. The IV of a directory stands for the directory.          *)
Plain(n) == << "name", n >>
Empty == << "" >>
Dot == << "." >>
DotDot == << ".." >>

EncryptAndHashName(n, iv) == << IF n \in LongNames THEN "hash" ELSE "enc", iv, n >>
IsLongContent(part) == part[1] = "hash"

Reading == [pc |-> "read"]
Init ==
    /\ plaintextnames \in BOOLEAN
    /\ ent \in [Dirs -> [Names -> Dirs \union Files \union {None}]]
    /\ \A o \in Dirs \union Files :
          Cardinality({x \in Dirs \X Names : ent[x[1]][x[2]] = o}) = (IF o = Root THEN 0 ELSE 1)
    /\ \A n \in Names, d \in Dirs \ {Root} : ent[d][n] \notin Dirs      \* bound: two levels
    /\ moves = 0
    /\ open = [c \in Clients |-> TRUE]
    /\ c2s = [c \in Clients |-> << >>] /\ s2c = [c \in Clients |-> << >>]
    /\ srv = [c \in Clients |-> Reading]
    /\ cl = [c \in Clients |-> "idle"]
    /\ asked = [c \in Clients |-> << >>] /\ got = [c \in Clients |-> None]

----------------------------------------------------------------------------
(* Streams                                                                 *)

Message(m, size) == [k \in 1..size |-> [msg |-> m, unit |-> k, last |-> k = size]]
Received(s) == SubSeq(s, 1, IF Len(s) < Buf THEN Len(s) ELSE Buf)
Rest(s) == SubSeq(s, Len(Received(s)) + 1, Len(s))
\* json.Unmarshal accepts exactly one whole message.
Parses(r) == /\ r[1].unit = 1 /\ r[Len(r)].last
             /\ \A k \in DOMAIN r : r[k].last => k = Len(r)

Units(path) == IF path = << >> THEN 1
               ELSE Len(path) * (IF path[1][1] \in {"enc", "hash"} THEN 2 ELSE 1)
RequestSize(req) == IF Units(req.enc) > Units(req.dec) THEN Units(req.enc) ELSE Units(req.dec)

----------------------------------------------------------------------------
(* The server                                                              *)

\* filepath.Clean, one segment at a time.
CleanStep(clean, seg) ==
    CASE seg \in {Empty, Dot} -> clean
      [] seg = DotDot /\ clean # << >> /\ Last(clean) # DotDot -> Front(clean)
      [] OTHER -> Append(clean, seg)

SanitizePath(path) ==
    LET clean == FoldLeft(CleanStep, << >>, path)
    IN  IF clean # << >> /\ Head(clean) = DotDot THEN << >> ELSE clean

sendResponse(c, resp) ==
    /\ s2c' = [s2c EXCEPT ![c] = @ \o Message(resp, Units(resp.result))]
    /\ srv' = [srv EXCEPT ![c] = Reading]
Failure(id) == [id |-> id, err |-> TRUE, result |-> << >>]
Success(id, path) == [id |-> id, err |-> FALSE, result |-> path]

\* Mutant: no response to a path that is empty after canonicalization.
handleRequest_silent(c, m) ==
    LET inPath == IF m.req.enc # << >> THEN m.req.enc ELSE m.req.dec
        clean == SanitizePath(inPath)
    IN  CASE (m.req.enc = << >>) = (m.req.dec = << >>) -> sendResponse(c, Failure(m.id))
          [] clean = << >> -> srv' = [srv EXCEPT ![c] = Reading] /\ UNCHANGED s2c
          [] plaintextnames -> sendResponse(c, Success(m.id, clean))
          [] OTHER ->
               /\ srv' = [srv EXCEPT ![c] =
                    [pc |-> "walk", enc |-> m.req.enc # << >>, id |-> m.id,
                     parts |-> clean, wd |-> Root, out |-> << >>]]
               /\ UNCHANGED s2c

handleRequest(c, m) ==
    LET inPath == IF m.req.enc # << >> THEN m.req.enc ELSE m.req.dec
        clean == SanitizePath(inPath)
    IN  CASE (m.req.enc = << >>) = (m.req.dec = << >>) ->      \* ambiguous, or empty input
               sendResponse(c, Failure(m.id))
          [] clean = << >> -> sendResponse(c, Failure(m.id))
          [] plaintextnames -> sendResponse(c, Success(m.id, clean))
          [] OTHER ->
               /\ srv' = [srv EXCEPT ![c] =
                    [pc |-> "walk", enc |-> m.req.enc # << >>, id |-> m.id,
                     parts |-> clean, wd |-> Root, out |-> << >>]]
               /\ UNCHANGED s2c

handleConnection(c) ==
    /\ open[c] /\ srv[c].pc = "read" /\ c2s[c] # << >>
    /\ LET r == Received(c2s[c])
       IN  CASE Len(r) = Buf ->                                  \* request too big
                  open' = [open EXCEPT ![c] = FALSE] /\ UNCHANGED << s2c, srv >>
             [] Len(r) < Buf /\ ~Parses(r) ->
                  sendResponse(c, Failure(0)) /\ UNCHANGED open
             [] OTHER -> handleRequest(c, r[1].msg) /\ UNCHANGED open
    /\ c2s' = [c2s EXCEPT ![c] = Rest(@)]
    /\ UNCHANGED << plaintextnames, ent, moves, client >>

\* The part `part` of a path, translated in the directory wd, or None.  In wd a
\* long name can be decrypted if its .name file is there.
EncryptPart(part, wd) ==
    IF part[1] = "name" THEN EncryptAndHashName(part[2], wd) ELSE None
DecryptPart(part, wd) ==
    IF /\ part[1] \in {"enc", "hash"} /\ part[2] = wd
       /\ IsLongContent(part) => ent[wd][part[3]] # None
    THEN Plain(part[3]) ELSE None

\* Mutant: the next level is looked up in the same directory.
Openat_same(wd, cPart) == wd
Openat(wd, cPart) ==
    IF cPart[2] = wd /\ ent[wd][cPart[3]] \in Dirs THEN ent[wd][cPart[3]] ELSE None

\* One level of EncryptPath or DecryptPath.
Level(c) ==
    /\ srv[c].pc = "walk"
    /\ LET s == srv[c]
           part == s.parts[Len(s.out) + 1]
           new == IF s.enc THEN EncryptPart(part, s.wd) ELSE DecryptPart(part, s.wd)
           cPart == IF s.enc THEN new ELSE part
       IN  CASE new = None -> sendResponse(c, Failure(s.id))
             [] new # None /\ Len(s.out) + 1 = Len(s.parts) ->
                  sendResponse(c, Success(s.id, Append(s.out, new)))
             [] new # None /\ Len(s.out) + 1 < Len(s.parts) ->
                  IF Openat(s.wd, cPart) = None THEN sendResponse(c, Failure(s.id))
                  ELSE /\ srv' = [srv EXCEPT ![c].wd = Openat(s.wd, cPart),
                                             ![c].out = Append(@, new)]
                       /\ UNCHANGED s2c
    /\ UNCHANGED << plaintextnames, ent, moves, open, c2s, client >>

----------------------------------------------------------------------------
(* The client: Query                                                       *)

\* Nothing of an earlier query is under way on the connection.
Quiet(c) == c2s[c] = << >> /\ s2c[c] = << >> /\ srv[c] = Reading

Query(c, req) ==
    /\ cl[c] = "idle" /\ open[c] /\ Len(asked[c]) < MaxQueries
    /\ cl' = [cl EXCEPT ![c] = "wait"] /\ got' = [got EXCEPT ![c] = None]
    /\ asked' = [asked EXCEPT ![c] =
                    Append(@, [req |-> req, moves |-> moves, alone |-> Quiet(c)])]
    /\ c2s' = [c2s EXCEPT ![c] =
                  @ \o Message([id |-> Len(asked'[c]), req |-> req], RequestSize(req))]
    /\ UNCHANGED << plaintextnames, ent, moves, open, s2c, srv >>

Returns(c, resp) ==
    /\ got' = [got EXCEPT ![c] = resp] /\ cl' = [cl EXCEPT ![c] = "idle"]
    /\ UNCHANGED asked

\* The error of json.Unmarshal is ignored: the response stays all zero.
ReadResponse(c) ==
    /\ cl[c] = "wait" /\ s2c[c] # << >>
    /\ LET r == Received(s2c[c])
       IN  Returns(c, IF Parses(r) THEN r[1].msg ELSE Success(0, << >>))
    /\ s2c' = [s2c EXCEPT ![c] = Rest(@)]
    /\ UNCHANGED << plaintextnames, ent, moves, open, c2s, srv >>

ReadClosed(c) ==
    /\ cl[c] = "wait" /\ ~open[c] /\ s2c[c] = << >>
    /\ Returns(c, Failure(Len(asked[c])))
    /\ UNCHANGED << plaintextnames, ent, moves, open, c2s, s2c, srv >>

ReadTimeout(c) ==
    /\ cl[c] = "wait"
    /\ Returns(c, Failure(Len(asked[c])))
    /\ UNCHANGED << plaintextnames, ent, moves, open, c2s, s2c, srv >>

----------------------------------------------------------------------------
\* Another thread renames; a directory stays in its parent.
Move(d, n, d2, n2) ==
    /\ moves < MaxMoves /\ moves' = moves + 1
    /\ ent[d][n] # None /\ ent[d2][n2] = None
    /\ ent[d][n] \in Dirs => d2 = d
    /\ ent' = [e \in Dirs |-> [m \in Names |->
                  IF e = d2 /\ m = n2 THEN ent[d][n]
                  ELSE IF e = d /\ m = n THEN None ELSE ent[e][m]]]
    /\ UNCHANGED << plaintextnames, open, c2s, s2c, srv, client >>

Next ==
    \/ \E c \in Clients : \/ \E req \in Requests : Query(c, req)
                          \/ handleConnection(c) \/ Level(c)
                          \/ ReadResponse(c) \/ ReadClosed(c) \/ ReadTimeout(c)
    \/ \E d, d2 \in Dirs, n, n2 \in Names : Move(d, n, d2, n2)

Spec == Init /\ [][Next]_vars

\* The goroutine of a connection runs; a Read with data ready returns.
FairSpec ==
    /\ Spec
    /\ \A c \in Clients : /\ WF_vars(handleConnection(c) \/ Level(c))
                           /\ WF_vars(ReadResponse(c) \/ ReadClosed(c))

----------------------------------------------------------------------------
(* Properties                                                              *)

\* The parts of `cipher` are those of `plain`, each encrypted with the IV of the
\* directory that the parts before it lead to.
Translates(plain, cipher) ==
    /\ Len(plain) = Len(cipher)
    /\ \E ds \in [1..Len(plain) -> Dirs] :
          /\ ds[1] = Root
          /\ \A k \in 2..Len(plain) : ds[k] = ent[ds[k - 1]][plain[k - 1][2]]
          /\ \A k \in 1..Len(plain) : cipher[k] = EncryptAndHashName(plain[k][2], ds[k])

\* A response without an error that the client can parse translates the path of the
\* query it answers, if no other thread renamed anything since: EncryptPath and
\* DecryptPath are inverse to each other along the backing directories.  That query
\* is the one that returns it, unless the answer to a query that timed out, or the
\* rest of one longer than Buf, was still under way (Query keeps the connection).
AnswerIsRight ==
    \A c \in Clients :
        (cl[c] = "idle" /\ got[c] # None /\ ~got[c].err /\ got[c].id # 0) =>
            LET q == asked[c][got[c].id]
                req == q.req
                clean == SanitizePath(IF req.enc # << >> THEN req.enc ELSE req.dec)
            IN  /\ Last(asked[c]).alone => got[c].id = Len(asked[c])
                /\ q.moves = moves =>
                     IF plaintextnames THEN got[c].result = clean
                     ELSE IF req.enc # << >> THEN Translates(clean, got[c].result)
                     ELSE Translates(got[c].result, clean)

\* Even if nothing ever timed out, every query returns: handleConnection answers each
\* request, or closes the connection.
QueryReturns == \A c \in Clients : cl[c] = "wait" ~> cl[c] = "idle"
=============================================================================
