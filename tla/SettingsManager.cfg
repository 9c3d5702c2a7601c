\* Two slots for three networks, one with a name that does not fit.
CONSTANTS
  lvgl = lvgl  httpd = httpd
  n1 = n1  n2 = n2  long = long  cut = cut
  p1 = p1  p2 = p2  none = none  v1 = v1
  Empty = Empty  Idle = Idle
  Tasks <- Both
  Names <- NetworkNames
  Passwords <- TwoPasswords
  Cut <- CutLong
  Limit = 2
  BufferKeys <- NetworkKeys
  ArgumentKeys <- OtherKeys
  Values <- TwoValues
  Default = none
  Kept <- KeptInRam
  Reread <- ReadAtBoot
SYMMETRY Symmetry
SPECIFICATION Spec
INVARIANTS TypeOK Packed SavedOnce SurvivesReboot
PROPERTIES RefinesSavedNetworks
