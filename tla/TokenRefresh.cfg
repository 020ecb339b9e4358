CONSTANTS
  Reqs = {get, out, upload}
  Logouts = {out}
  Uploads = {upload}
  Users = {u1, u2}
  Nobody = nobody
  Boot = boot
  Door = door
  MaxNow = 1
SPECIFICATION Spec
INVARIANT OneDriver
INVARIANT SessionFollowsUser
PROPERTY RequestsSettle
