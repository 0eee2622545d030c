---------------------------- MODULE MCClientConn ----------------------------
(* Packets of two bytes; files of none, two and three bytes.                *)
EXTENDS ClientConn
MCPaths == {"a", "b"}
On(p, data) == [q \in MCPaths |-> IF q = p THEN data ELSE NoFile]
Base == [program |-> <<>>, files |-> On("a", <<1, 2, 3>>), compressDownloads |-> FALSE,
         race |-> TRUE, silent |-> FALSE, disk |-> FALSE, lostUp |-> 0, lost |-> 0, damaged |-> 0, jobs |-> 0]
Up(p, data) == Do("upload", p, data, FALSE, FALSE)
Lz(p, data) == Do("upload.lz", p, data, FALSE, FALSE)
Down(p) == Do("download", p, <<>>, FALSE, FALSE)
Simple(kind, p) == Do(kind, p, <<>>, FALSE, FALSE)
Checked(do) == [do EXCEPT !.check = TRUE]
Kept(do) == [do EXCEPT !.keep = TRUE]
MCScenes == {
    \* uploads with damaged and lost frames, retried
    [Base EXCEPT !.program = <<Up("b", <<4, 5, 6>>), Checked(Up("b", <<4, 5, 6>>)), Kept(Simple("md5sum", "b"))>>,
                 !.damaged = 2, !.lost = 1, !.lostUp = 1],
    [Base EXCEPT !.program = <<Up("b", <<>>), Up("a", <<7, 8>>), Lz("b", <<5, 6>>), Simple("ls", "a")>>, !.damaged = 1],
    \* downloads, after one another and before a checked upload
    [Base EXCEPT !.program = <<Down("a"), Down("b"), Down("a"), Checked(Up("b", <<4, 5, 6>>))>>, !.disk = TRUE],
    [Base EXCEPT !.program = <<Down("a"), Checked(Up("a", <<4, 5>>)), Down("a")>>, !.compressDownloads = TRUE, !.lost = 1],
    \* queries that time out and are answered late, a machine that is busy
    [Base EXCEPT !.program = <<Kept(Simple("query", "a")), Kept(Simple("query", "a")),
                               Checked(Simple("md5sum", "a")), Simple("play", "a")>>, !.jobs = 1],
    [Base EXCEPT !.program = <<Checked(Up("b", <<4, 5>>)), Down("a"), Checked(Do("mv", "a", <<"b">>, FALSE, FALSE)), Checked(Simple("rm", "a")),
                               Simple("query", "a")>>,
                 !.jobs = 1, !.lost = 1, !.silent = TRUE],
    [Base EXCEPT !.program = <<Down("a"), Kept(Simple("query", "a")), Checked(Up("b", <<4, 5>>)),
                               Kept(Simple("md5sum", "b")), Checked(Simple("md5sum", "a"))>>],
    \* console commands
    [Base EXCEPT !.program = <<Simple("multi", "query"), Checked(Simple("multi", "motion")), Simple("multi", "query"),
                               Checked(Simple("ftype", "a")), Kept(Simple("query", "a"))>>, !.silent = TRUE]}
\* An upload right after a download, while the tracker is still fresh.
MCStaleEnd == {[Base EXCEPT !.program = <<Down("a"), Up("b", <<4, 5>>)>>]}
\* The drain of the second query ends before the answer to the first has come.
MCLatePoll == {[Base EXCEPT !.program = <<Kept(Simple("query", "a")), Kept(Simple("query", "a"))>>]}
\* The check after an upload times out, and its answer comes during the next one.
MCLateDigest == {[Base EXCEPT !.program = <<Kept(Simple("md5sum", "a")), Simple("md5sum", "b")>>]}
\* The acknowledgement of a download is lost.
MCLostEnd == {[Base EXCEPT !.program = <<Down("a"), Checked(Up("b", <<4, 5>>))>>, !.lostUp = 1]}
=============================================================================
