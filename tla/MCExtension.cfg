\* Longs of five digits that the alphabets spell: up to 19998, 1.9998, 11d.
\* A day of 24 ms, which like the real one does not divide the range of the
\* seven-bit integers, and 400 days from each place where the clock starts.
CONSTANTS
  MinLong <- MCMinLong
  MaxLong = 19998
  UnitMs <- MCUnitMs
  DecimalLength = 8
  DurationLength = 7
  LongLength = 6
  ByteBits = 2
  Ipv4Bytes = 2
  Groups = 3
  HexDigits = 1
  HexValue <- MCHexValue
  MaxIpLength = 8
  LoopbackByte = 1
  MulticastByte = 2
  MulticastBits = 1
  Ipv4Length = 6
  Ipv6Length = 8
  Sampled <- MCSampled
  MinInt <- MCMinInt
  MaxInt = 63
  HoursPerDay = 3
  MinutesPerHour = 2
  SecondsPerMinute = 2
  MsPerSecond = 2
  Days = 400
SPECIFICATION Spec
INVARIANTS
  NumbersExact
  DatetimeExact
  OffsetUndoes
  DateAndTime
  IpExact
  ContainsExact
CHECK_DEADLOCK FALSE
