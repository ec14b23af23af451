---------------------------- MODULE FileTransfer ----------------------------
(***************************************************************************)
(* The file transfer of file/fileIO.c: the client fetches one chunk after  *)
(* the other by its offset, until one is shorter than a chunk.  The offset *)
(* travels as text, and the server reads it with atoi into a signed number,*)
(* of which Half are not negative.  A byte of the file is its place in it. *)
(***************************************************************************)
EXTENDS Integers, Sequences

CONSTANTS Half,         \* 2 ^ 31 for an int of 32 bits
          CHUNK_SIZE,
          FileSizes     \* sizes of the file, which does not change

ASSUME FileAssumption ==
    /\ Half \in Nat \ {0} /\ CHUNK_SIZE \in Nat \ {0}
    /\ FileSizes \subseteq 0 .. 2 * Half - 1 \* beyond, offsets start again at 0

VARIABLES file,         \* the size of the file
          position,     \* where the server's FILE is
          fetch,        \* the request under way, NoFetch without one
          chunk,        \* the reply under way, NoChunk without one
          fetched,      \* the bytes the client has
          chunks,       \* how many chunks it has counted
          clientThread  \* "asks", "waits", "done"; then main ends both threads: "ended"

fileVars == <<file, position, fetch, chunk, fetched, chunks, clientThread>>

NoFetch == -1
NoChunk == <<-1>>

FileInit ==
    /\ file \in FileSizes
    /\ position = 0
    /\ fetch = NoFetch
    /\ chunk = NoChunk
    /\ fetched = <<>>
    /\ chunks = 0
    /\ clientThread = "asks"

\* client_thread: it asks for what follows the bytes it has.
Fetch ==
    /\ clientThread = "asks"
    /\ fetch' = Len(fetched)
    /\ clientThread' = "waits"
    /\ UNCHANGED <<file, position, chunk, fetched, chunks>>

\* atoi: what fits in the number is kept, and the highest bit is its sign.
Atoi(n) ==
    LET low == n % (2 * Half) IN IF low >= Half THEN low - 2 * Half ELSE low

\* fseek to a negative place fails, and leaves the FILE where the last read ended.
Seek(offset) == IF offset < 0 THEN position ELSE offset

\* server_thread: it reads a chunk, or what is left of the file.
ServeChunk ==
    LET from == Seek(Atoi(fetch))
        to   == IF from + CHUNK_SIZE < file THEN from + CHUNK_SIZE ELSE file
    IN  /\ fetch # NoFetch /\ clientThread # "ended"
        /\ chunk' = [i \in 1 .. (IF to > from THEN to - from ELSE 0) |-> from + i]
        /\ position' = IF to > from THEN to ELSE from
        /\ fetch' = NoFetch
        /\ UNCHANGED <<file, fetched, chunks, clientThread>>

LastChunk(size) == size < CHUNK_SIZE

\* client_thread: a chunk is added, and one that is not full is the last.
ChunkCame ==
    /\ clientThread = "waits" /\ chunk # NoChunk
    /\ fetched' = fetched \o chunk
    /\ chunks' = chunks + 1
    /\ chunk' = NoChunk
    /\ clientThread' = IF LastChunk(Len(chunk)) THEN "done" ELSE "asks"
    /\ UNCHANGED <<file, position, fetch>>

\* main: told by the client, it ends the server.
EndThreads ==
    /\ clientThread = "done"
    /\ clientThread' = "ended"
    /\ UNCHANGED <<file, position, fetch, chunk, fetched, chunks>>

FileNext == Fetch \/ ServeChunk \/ ChunkCame \/ EndThreads

----------------------------------------------------------------------------
(* Properties. *)

\* The client has a part of the file from its start at any time, and ends with the
\* whole of it, in one chunk more than are full: also for a file that ends with a
\* chunk, and for offsets too large for atoi, which fseek refuses (fileIO.c:19-35, 64-83).
FileWhole ==
    /\ fetched = [i \in 1 .. Len(fetched) |-> i]
    /\ clientThread \in {"done", "ended"} => Len(fetched) = file /\ chunks = file \div CHUNK_SIZE + 1

=============================================================================
