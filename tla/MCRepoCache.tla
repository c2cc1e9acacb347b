----------------------------- MODULE MCRepoCache -----------------------------
EXTENDS RepoCache

\* Two repositories of one name; the first is fetched with credentials.
MCName == [u \in Uri |-> "app"]
MCAsks == {[uri |-> "u1", branch |-> "", commit |-> [uri |-> "u1", branch |-> "main", n |-> 2]],
           [uri |-> "u2", branch |-> "", commit |-> [uri |-> "u2", branch |-> "dev", n |-> 2]],
           [uri |-> "u1", branch |-> "main", commit |-> NoCommit]}
==============================================================================
