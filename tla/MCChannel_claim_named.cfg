SPECIFICATION Spec
CONSTANTS
  ChannelId = {c1}
  Name = {1, 2}
  DataBin = 1
  Request = {r1, r2}
  MaxUploads = 2
  MaxChunks = 2
SYMMETRY Symmetry
PROPERTIES PrefersNamed
