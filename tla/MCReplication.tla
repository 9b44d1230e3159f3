--------------------------- MODULE MCReplication ---------------------------
EXTENDS Replication, TLC

CONSTANTS a, b, shell, watcher, other, f, g, x

Shells == (shell :> a) @@ (watcher :> a) @@ (other :> b)

\* a publishes, by hand and with watch; b follows, and over git pushes as well.
Publishing ==
     (shell   :> [git |-> {"sync --push", "sync --push --force"},
                  ssh |-> {"sync --push"}, local |-> {"sync --push"}])
  @@ (watcher :> [git |-> {"watch"}, ssh |-> {"watch"}, local |-> {}])
  @@ (other   :> [git |-> {"bootstrap", "deploy", "sync --push"},
                  ssh |-> {"bootstrap", "deploy"}, local |-> {"bootstrap", "deploy"}])
Operations == [git |-> 1, ssh |-> 1, local |-> 2]
Failures   == [git |-> 1, ssh |-> 1, local |-> 0]
OneFile    == {<<a, f>>, <<b, f>>}

\* b pulls with sync.
Pulling2 ==
     (shell   :> [local |-> {"sync --push"}]) @@ (watcher :> [local |-> {}])
  @@ (other   :> [local |-> {"bootstrap", "sync --pull", "sync"}])
\* b deploys two files that only a's user touches.
Deploying ==
     (shell   :> [local |-> {"sync --push"}]) @@ (watcher :> [local |-> {}])
  @@ (other   :> [local |-> {"bootstrap", "deploy"}])
One      == [local |-> 1]
Three    == [local |-> 3]
None     == [local |-> 0]
TwoFiles == {<<a, f>>, <<a, g>>}
=============================================================================
