SPECIFICATION Spec
CONSTANTS
  MaxDigits = 3
  U64Max = 20000
  CLIs <- CommandLines
  Versions <- SomeVersions
  None = None
  Unparsable = Unparsable
  Bad = Bad
  Opaque = Opaque
  Stdout = Stdout
  NoPath = NoPath
  Text = Text
  Secret = Secret
  Stars = Stars
INVARIANT UnverifiedIsAnnounced
